---- MODULE Spec2Model ----
(***************************************************************************)
(* Credential scheduler of backend/app/services/credential_pool.py        *)
(* (class CredentialPool) over the shared `credentials` table.  One       *)
(* action per scheduler operation; every action is one committed store    *)
(* transaction of the operation it models.                                *)
(***************************************************************************)
EXTENDS Integers, Sequences, FiniteSets, TLC

\* ---------------------------------------------------------------- bounds
NumCreds == 3
\* the clock runs from 1 to MaxTime
MaxTime == 5
\* the configured cooldown of a group, when it is not disabled (0)
CdSeconds == 4

\* ------------------------------------------------------- value universes
Creds == 1..NumCreds
\* the requester and another user
Users == {1, 2}
\* SQL NULL / Python None for integer columns (user_id, timestamps, ids)
NULL == 0
\* Python None for string columns and arguments
NoneStr == "None"

ValidModes == {"geminicli", "antigravity"}
Modes == ValidModes \cup {"codex"}
Tiers == {"2.5", "3"}
Groups == {"flash", "pro", "30"}
AgyGroups == {"claude", "gemini", "banana"}
PoolModes == {"private", "tier3_shared", "full_shared"}
AgyPoolModes == {"private", "full_shared"}

\* Model names a request can carry; NoneStr is model=None.
ModelNames == {"gemini-2.5-flash", "gemini-2.5-pro", "gemini-3-pro-preview",
               "claude-sonnet-4-5"}
ModelArgs == ModelNames \cup {NoneStr}

\* `kw in model.lower()` for the keywords the scheduler tests.
Keywords ==
  [m \in ModelNames |->
     CASE m = "gemini-2.5-flash" -> {"flash"}
       [] m = "gemini-2.5-pro" -> {"pro"}
       [] m = "gemini-3-pro-preview" -> {"gemini-3-", "pro"}
       [] m = "claude-sonnet-4-5" -> {"claude"}]

InLower(kw, model) == kw \in Keywords[model]

\* `if model` : None and the empty string are falsy
Truthy(s) == s # NoneStr /\ s # ""

get_required_tier(model) ==
  IF InLower("gemini-3-", model) \/ InLower("/gemini-3-", model) THEN "3" ELSE "2.5"

get_model_group(model) ==
  IF ~Truthy(model) THEN "flash"
  ELSE IF InLower("gemini-3-", model) \/ InLower("/gemini-3-", model) THEN "30"
  ELSE IF InLower("pro", model) THEN "pro"
  ELSE "flash"

get_antigravity_model_group(model) ==
  IF ~Truthy(model) THEN "gemini"
  ELSE IF InLower("claude", model) THEN "claude"
  ELSE IF InLower("image", model) THEN "banana"
  ELSE "gemini"

\* ------------------------------------------------------------------ state
VARIABLES
  credentials,  \* the credentials table: id -> row
  users,        \* the users table: id -> row (bonus_quota)
  settings,     \* app.config.settings fields the scheduler reads
  now,          \* datetime.utcnow()
  last,         \* the call in progress / just completed: operation, arguments,
                \* result, and the table and clock it started from
  request,      \* the router's request in progress: its place in the retry
                \* loop and the loop's variables
  sessions      \* store sessions that run handle_credential_failure side by
                \* side: the statement each is at and the rows it has read

vars == <<credentials, users, settings, now, last, request, sessions>>

get_cd_seconds(model_group) ==
  IF model_group = "30" THEN settings.cd_30
  ELSE IF model_group = "pro" THEN settings.cd_pro
  ELSE settings.cd_flash

\* the group-specific last-used column of a row
last_used_of(credential, model_group) ==
  IF model_group = "30" THEN credential.last_used_30
  ELSE IF model_group = "pro" THEN credential.last_used_pro
  ELSE credential.last_used_flash

is_credential_in_cd(credential, model_group, utcnow) ==
  LET cd_seconds == get_cd_seconds(model_group)
      last_used == last_used_of(credential, model_group)
  IN IF cd_seconds <= 0 THEN FALSE
     ELSE IF last_used = NULL THEN FALSE
     ELSE utcnow < last_used + cd_seconds

\* model_cooldowns: group -> reset time, NULL where the map has no entry
is_credential_in_model_group_cooldown(credential, model_group, utcnow) ==
  LET reset_time == credential.model_cooldowns[model_group]
  IN IF reset_time = NULL THEN FALSE ELSE utcnow < reset_time

validate_mode(mode) == mode \in ValidModes

check_user_has_tier3_creds(db, user_id, mode) ==
  \E i \in Creds :
     /\ db[i].user_id = user_id
     /\ db[i].api_type = mode
     /\ db[i].model_tier = "3"
     /\ db[i].is_active

check_user_has_public_creds(db, user_id, mode) ==
  \E i \in Creds :
     /\ db[i].user_id = user_id
     /\ db[i].api_type = mode
     /\ db[i].is_public
     /\ db[i].is_active

\* or_(Credential.is_public == True, Credential.user_id == user_id)
PublicOrOwn(c, user_id) == c.is_public \/ c.user_id = user_id

\* Faulty variant: the public pool of tier3_shared is open to every requester.
VisibleTier3Open(db, c, user_id, required_tier, mode) ==
  IF mode = "antigravity" THEN
    IF settings.antigravity_pool_mode = "private"
      THEN c.user_id = user_id
      ELSE PublicOrOwn(c, user_id)
  ELSE IF settings.credential_pool_mode = "private" THEN c.user_id = user_id
  ELSE PublicOrOwn(c, user_id)

\* Faulty variant: the private policy lets the public credentials through.
VisiblePrivateOpen(db, c, user_id, required_tier, mode) ==
  IF mode = "antigravity" THEN PublicOrOwn(c, user_id)
  ELSE IF settings.credential_pool_mode = "tier3_shared" THEN
    IF required_tier = "3" THEN
      IF check_user_has_tier3_creds(db, user_id, mode)
        THEN PublicOrOwn(c, user_id)
        ELSE c.user_id = user_id
    ELSE PublicOrOwn(c, user_id)
  ELSE PublicOrOwn(c, user_id)

\* The pool-policy clause of the selection query.
Visible(db, c, user_id, required_tier, mode) ==
  IF mode = "antigravity" THEN
    IF settings.antigravity_pool_mode = "private"
      THEN c.user_id = user_id
      ELSE PublicOrOwn(c, user_id)
  ELSE IF settings.credential_pool_mode = "private" THEN c.user_id = user_id
  ELSE IF settings.credential_pool_mode = "tier3_shared" THEN
    IF required_tier = "3" THEN
      IF check_user_has_tier3_creds(db, user_id, mode)
        THEN PublicOrOwn(c, user_id)
        ELSE c.user_id = user_id
    ELSE PublicOrOwn(c, user_id)
  ELSE PublicOrOwn(c, user_id)

RequiredTierOf(model) == IF Truthy(model) THEN get_required_tier(model) ELSE "2.5"

\* Faulty variants of the WHERE clause: one filter left out.
QueryFilterNoActive(db, user_id, model, exclude_ids, mode) ==
  { i \in Creds :
      /\ db[i].api_type = mode
      /\ db[i].project_id # NoneStr
      /\ db[i].project_id # ""
      /\ (exclude_ids # {} => i \notin exclude_ids)
      /\ ((mode = "geminicli" /\ RequiredTierOf(model) = "3")
            => db[i].model_tier = "3")
      /\ Visible(db, db[i], user_id, RequiredTierOf(model), mode) }

QueryFilterNoTier(db, user_id, model, exclude_ids, mode) ==
  { i \in Creds :
      /\ db[i].is_active
      /\ db[i].api_type = mode
      /\ db[i].project_id # NoneStr
      /\ db[i].project_id # ""
      /\ (exclude_ids # {} => i \notin exclude_ids)
      /\ Visible(db, db[i], user_id, RequiredTierOf(model), mode) }

QueryFilterNoExclude(db, user_id, model, exclude_ids, mode) ==
  { i \in Creds :
      /\ db[i].is_active
      /\ db[i].api_type = mode
      /\ db[i].project_id # NoneStr
      /\ db[i].project_id # ""
      /\ ((mode = "geminicli" /\ RequiredTierOf(model) = "3")
            => db[i].model_tier = "3")
      /\ Visible(db, db[i], user_id, RequiredTierOf(model), mode) }

QueryFilterNoMode(db, user_id, model, exclude_ids, mode) ==
  { i \in Creds :
      /\ db[i].is_active
      /\ db[i].project_id # NoneStr
      /\ db[i].project_id # ""
      /\ (exclude_ids # {} => i \notin exclude_ids)
      /\ ((mode = "geminicli" /\ RequiredTierOf(model) = "3")
            => db[i].model_tier = "3")
      /\ Visible(db, db[i], user_id, RequiredTierOf(model), mode) }

\* only the NULL test of the tenant id, not the empty string
QueryFilterNullTenantOnly(db, user_id, model, exclude_ids, mode) ==
  { i \in Creds :
      /\ db[i].is_active
      /\ db[i].api_type = mode
      /\ db[i].project_id # NoneStr
      /\ (exclude_ids # {} => i \notin exclude_ids)
      /\ ((mode = "geminicli" /\ RequiredTierOf(model) = "3")
            => db[i].model_tier = "3")
      /\ Visible(db, db[i], user_id, RequiredTierOf(model), mode) }

\* The WHERE clause of the selection query: the ids of the rows it returns.
QueryFilter(db, user_id, model, exclude_ids, mode) ==
  { i \in Creds :
      /\ db[i].is_active
      /\ db[i].api_type = mode
      /\ db[i].project_id # NoneStr
      /\ db[i].project_id # ""
      /\ (exclude_ids # {} => i \notin exclude_ids)
      /\ ((mode = "geminicli" /\ RequiredTierOf(model) = "3")
            => db[i].model_tier = "3")
      /\ Visible(db, db[i], user_id, RequiredTierOf(model), mode) }

\* Faulty variant: no ORDER BY, the rows come in any order.
OrderByNothing(db, F) ==
  { s \in [1..Cardinality(F) -> F] :
      \A i, j \in 1..Cardinality(F) : i # j => s[i] # s[j] }

\* ORDER BY last_used_at ASC NULLS FIRST: every listing of the rows that
\* respects the key; rows with equal keys come in an order the store picks.
OrderByLastUsedAt(db, F) ==
  { s \in [1..Cardinality(F) -> F] :
      /\ \A i, j \in 1..Cardinality(F) : i # j => s[i] # s[j]
      /\ \A i, j \in 1..Cardinality(F) :
           i < j => db[s[i]].last_used_at <= db[s[j]].last_used_at }

\* NoneStr for agy_model_group = None
AgyModelGroupOf(model, mode) ==
  IF mode = "antigravity" /\ Truthy(model)
    THEN get_antigravity_model_group(model) ELSE NoneStr

\* Faulty variant: the cooldown map is not read.
is_credential_available_fixed_only(c, model_group, agy_model_group, utcnow) ==
  ~is_credential_in_cd(c, model_group, utcnow)

is_credential_available(c, model_group, agy_model_group, utcnow) ==
  IF is_credential_in_cd(c, model_group, utcnow) THEN FALSE
  ELSE IF agy_model_group # NoneStr
          /\ is_credential_in_model_group_cooldown(c, agy_model_group, utcnow)
    THEN FALSE
  ELSE TRUE

ModelGroupOf(model) == IF Truthy(model) THEN get_model_group(model) ELSE "flash"

\* the row update committed by a selection
\* Faulty variant: the selection stamps every group.
MarkUsedEveryGroup(c, model_group, utcnow) ==
  [c EXCEPT !.last_used_at = utcnow, !.total_requests = @ + 1,
            !.last_used_flash = utcnow, !.last_used_pro = utcnow,
            !.last_used_30 = utcnow]

\* Faulty variant: the selection leaves last_used_at as it was.
MarkUsedKeepingLastUsedAt(c, model_group, utcnow) ==
  LET c1 == [c EXCEPT !.total_requests = @ + 1]
  IN IF model_group = "30" THEN [c1 EXCEPT !.last_used_30 = utcnow]
     ELSE IF model_group = "pro" THEN [c1 EXCEPT !.last_used_pro = utcnow]
     ELSE [c1 EXCEPT !.last_used_flash = utcnow]

MarkUsed(c, model_group, utcnow) ==
  LET c1 == [c EXCEPT !.last_used_at = utcnow, !.total_requests = @ + 1]
  IN IF model_group = "30" THEN [c1 EXCEPT !.last_used_30 = utcnow]
     ELSE IF model_group = "pro" THEN [c1 EXCEPT !.last_used_pro = utcnow]
     ELSE [c1 EXCEPT !.last_used_flash = utcnow]

\* ---------------------------------------------------------- 429 responses
\* What the parsing finds in an error text: in a JSON body, the metadata's
\* model (NoneStr: none) and its quotaResetTimeStamp, a wall-clock reading
\* (NULL: none) with its offset from UTC; and what each regular expression
\* of parse_429_retry_after captures.  A \\d+ group is the
\* number it spells, NoMatch where the expression does not match; the three
\* [\\d.]+ groups of quotaResetDelay are kept as written, NoneStr for a group
\* that is absent, and the field is <<>> where the expression does not match.
NoMatch == -1

PlainText ==
  [model |-> NoneStr, quotaResetTimeStamp |-> NULL, utc_offset |-> 0,
   retryDelay |-> NoMatch,
   quotaResetDelay |-> <<>>, retry_after |-> NoMatch, seconds |-> NoMatch]

\* "retryDelay": "<n>s"
RetryDelayText(n) == [PlainText EXCEPT !.retryDelay = n]

\* "quotaResetDelay": "<h>h<m>m<s>s"
QuotaResetDelayText(h, m, s) == [PlainText EXCEPT !.quotaResetDelay = <<h, m, s>>]

\* retry after <n> seconds
RetryAfterText(n) == [PlainText EXCEPT !.retry_after = n, !.seconds = n]

\* wait <n> seconds
SecondsText(n) == [PlainText EXCEPT !.seconds = n]

\* a RESOURCE_EXHAUSTED body whose ErrorInfo metadata has the model, the
\* quotaResetTimeStamp t written with the UTC offset, and quotaResetDelay
\* 1h2m3s
QuotaBodyOf(model, t, utc_offset) ==
  [PlainText EXCEPT !.model = model, !.quotaResetTimeStamp = t,
                    !.utc_offset = utc_offset,
                    !.quotaResetDelay = <<"1", "2", "3">>]

\* the same with a timestamp ending in Z
QuotaBody(t) == QuotaBodyOf("claude-sonnet-4-5", t, 0)

\* the same without quotaResetTimeStamp
QuotaDelayBody(model) ==
  [PlainText EXCEPT !.model = model, !.quotaResetDelay = <<"1", "2", "3">>]

\* float(): the value in thousandths, and the texts it rejects
FloatRaises(token) == token \in {"1.2.3", "."}

FloatOf(token) ==
  IF token = "1" THEN 1000
  ELSE IF token = "2" THEN 2000
  ELSE IF token = "3" THEN 3000
  ELSE IF token = "1.5" THEN 1500
  ELSE IF token = "0.5" THEN 500
  ELSE 0

\* int() of a Retry-After header
IntRaises(value) == value \in {"soon"}

IntOf(value) ==
  IF value = "60" THEN 60
  ELSE IF value = "-5" THEN 0 - 5
  ELSE 0

\* reset_dt.astimezone(timezone.utc).timestamp()
parse_quota_reset_timestamp(error_text) ==
  error_text.quotaResetTimeStamp - error_text.utc_offset

\* parse_429_quota_error at clock reading utcnow: the group and the reset
\* time, NoneStr and NULL where it returns None.  The reset time is the
\* timestamp's reading with its tzinfo replaced by None.
parse_429_quota_error(error_text, utcnow) ==
  LET d == error_text.quotaResetDelay
      Whole(i) == IF d[i] = NoneStr THEN 0 ELSE FloatOf(d[i]) \div 1000
      model_group == get_antigravity_model_group(error_text.model)
  IN IF error_text.model = NoneStr
     THEN [model_group |-> NoneStr, reset_time |-> NULL]
     ELSE IF error_text.quotaResetTimeStamp # NULL
     THEN [model_group |-> model_group,
           reset_time |-> error_text.quotaResetTimeStamp]
     ELSE IF d # <<>> /\ ~(d[3] # NoneStr /\ FloatRaises(d[3]))
     THEN [model_group |-> model_group,
           reset_time |-> utcnow + Whole(1) * 3600 + Whole(2) * 60 + Whole(3)]
     ELSE [model_group |-> NoneStr, reset_time |-> NULL]

\* steps 3 to 5 of parse_429_retry_after
ParseDelayText(error_text) ==
  LET d == error_text.quotaResetDelay
      Part(i) == IF d[i] = NoneStr THEN 0 ELSE FloatOf(d[i])
      cd_seconds == (Part(1) * 3600 + Part(2) * 60 + Part(3)) \div 1000
  IN IF d # <<>> /\ \E i \in 1..3 : d[i] # NoneStr /\ FloatRaises(d[i])
     THEN [raised |-> TRUE, cd_seconds |-> 0]
     ELSE IF d # <<>> /\ cd_seconds > 0
     THEN [raised |-> FALSE, cd_seconds |-> cd_seconds]
     ELSE IF error_text.retry_after # NoMatch
     THEN [raised |-> FALSE, cd_seconds |-> error_text.retry_after]
     ELSE IF error_text.seconds # NoMatch
     THEN [raised |-> FALSE, cd_seconds |-> error_text.seconds]
     ELSE [raised |-> FALSE, cd_seconds |-> 0]

\* parse_429_retry_after at clock reading `time`; `retry_after` is the
\* Retry-After header, NoneStr without one
parse_429_retry_after(error_text, retry_after, time) ==
  IF /\ error_text.quotaResetTimeStamp # NULL
     /\ parse_quota_reset_timestamp(error_text) - time > 0
  THEN [raised |-> FALSE,
        cd_seconds |-> parse_quota_reset_timestamp(error_text) - time]
  ELSE IF retry_after # NoneStr /\ ~IntRaises(retry_after)
  THEN [raised |-> FALSE, cd_seconds |-> IntOf(retry_after)]
  ELSE IF error_text.retryDelay # NoMatch
  THEN [raised |-> FALSE, cd_seconds |-> error_text.retryDelay]
  ELSE ParseDelayText(error_text)

\* ---------------------------------------------------- tenant id handshake
\* What an endpoint answers to one POST of the handshake: "transport" is an
\* error of the connection (post_async raises), "non200" a status other than
\* 200, "malformed" a 200 whose body is no JSON or has a field of another
\* type than the code reads (response.json() or a .get raises); the others
\* are bodies the code reads through.
LoadResponses ==
  {"transport", "non200", "malformed", "no_tier", "tier_no_project", "project"}
TierResponses ==
  {"transport", "non200", "malformed", "default_tier", "default_no_id",
   "no_default"}
PollResponses ==
  {"transport", "non200", "malformed", "pending", "done_dict", "done_str",
   "done_none"}

NoResponses == [load |-> "project", tier |-> "no_default", polls |-> <<>>]

Raise == [raised |-> TRUE, value |-> NoneStr]
Give(value) == [raised |-> FALSE, value |-> value]

_try_load_code_assist(response) ==
  IF response \in {"transport", "non200", "malformed"} THEN Raise
  ELSE IF response = "project" THEN Give("proj")
  ELSE Give(NoneStr)

_get_onboard_tier(response) ==
  IF response \in {"transport", "malformed"} THEN Raise
  ELSE IF response = "default_tier" THEN Give("FREE")
  ELSE IF response = "no_default" THEN Give("LEGACY")
  ELSE Give(NoneStr)

max_attempts == 5

\* an outcome of the polling, with the number of POSTs made
Polled(r, attempt) ==
  [raised |-> r.raised, value |-> r.value, attempt |-> attempt]

\* the polling of onboardUser from attempt `attempt` on; polls[k] is the
\* answer to the k-th POST, and no answer is a connection error
RECURSIVE PollOnboardUser(_, _)
PollOnboardUser(polls, attempt) ==
  IF attempt >= max_attempts THEN Polled(Give(NoneStr), attempt)
  ELSE IF attempt + 1 > Len(polls) THEN Polled(Raise, attempt + 1)
  ELSE LET response == polls[attempt + 1]
       IN IF response \in {"transport", "non200", "malformed"}
          THEN Polled(Raise, attempt + 1)
          ELSE IF response = "pending"
          THEN PollOnboardUser(polls, attempt + 1)
          ELSE IF response \in {"done_dict", "done_str"}
          THEN Polled(Give("proj"), attempt + 1)
          ELSE Polled(Give(NoneStr), attempt + 1)

\* Faulty variant: an id that the finished operation carries as a string is
\* not read.
_try_onboard_user_dict_only(tier, polls) ==
  LET tier_id == _get_onboard_tier(tier)
      r == PollOnboardUser(polls, 0)
  IN IF tier_id.raised THEN Polled(Raise, 0)
     ELSE IF ~Truthy(tier_id.value) THEN Polled(Give(NoneStr), 0)
     ELSE IF ~r.raised /\ r.attempt > 0 /\ polls[r.attempt] = "done_str"
     THEN Polled(Give(NoneStr), r.attempt)
     ELSE r

_try_onboard_user(tier, polls) ==
  LET tier_id == _get_onboard_tier(tier)
  IN IF tier_id.raised THEN Polled(Raise, 0)
     ELSE IF ~Truthy(tier_id.value) THEN Polled(Give(NoneStr), 0)
     ELSE PollOnboardUser(polls, 0)

\* Faulty variant: the fallback step runs outside any try.
fetch_project_id_uncaught(responses) ==
  LET loaded == _try_load_code_assist(responses.load)
  IN IF ~loaded.raised /\ Truthy(loaded.value) THEN loaded
     ELSE _try_onboard_user(responses.tier, responses.polls)

\* Each step runs in a try whose except catches Exception and goes on.
fetch_project_id(responses) ==
  LET loaded == _try_load_code_assist(responses.load)
  IN IF ~loaded.raised /\ Truthy(loaded.value) THEN loaded
     ELSE LET onboarded == _try_onboard_user(responses.tier, responses.polls)
          IN IF onboarded.raised THEN Give(NoneStr) ELSE onboarded

\* ------------------------------------------------- the request in progress
\* chat_completions' variables: the credential the client is built on, the
\* ids handed out so far, the loop counter, the last exception's text, the
\* preheat task and what it returned, the credential of the fallback
\* selection, the time awaited on the task, the answer given, and the
\* upstream calls made so far, each with the credential it ran on and the
\* error it ended in ("" for none) and whether the handling of that error
\* disabled the credential, the number of preheat tasks under way and the
\* exclusion set the task was started with.
NoRequest ==
  [pc |-> "none", credential |-> NULL, tried_credential_ids |-> {},
   retry_attempt |-> 0, error_str |-> "", preheat_task |-> "none",
   preheat_result |-> NULL, new_credential |-> NULL, waited |-> 0,
   response |-> "none", attempts |-> <<>>, outstanding |-> 0,
   exclude_ids |-> {}]

\* -------------------------------------------------------- store sessions
\* A session that runs handle_credential_failure: the statement it is at,
\* its arguments, and the rows its SELECTs returned.
Sessions == {1, 2}

NoSession ==
  [pc |-> "idle", credential_id |-> NULL, error |-> "",
   cred |-> NULL, bonus_quota |-> NULL]

NoSessions == [p \in Sessions |-> NoSession]

\* ------------------------------------------------------- record of a call
Idle ==
  [op |-> "idle", mode |-> "", user_id |-> NULL, model |-> NoneStr,
   exclude_ids |-> {}, credential_id |-> NULL, error |-> "",
   result |-> NULL, access_token |-> NoneStr, project_id |-> NoneStr,
   raised |-> FALSE, error_text |-> PlainText, retry_after |-> NoneStr,
   model_group |-> NoneStr, expired |-> FALSE, refreshed |-> NoneStr,
   responses |-> NoResponses]

Called(op) == [Idle EXCEPT !.op = op]

\* `call` ran from the table `credentials` and ended at clock reading `utcnow`
Observe(call, utcnow) ==
  last' = [call |-> call, pre |-> credentials, pre_users |-> users, at |-> utcnow]

IsIdle == last.call.op = "idle"

\* the caller takes the result
Return ==
  /\ ~IsIdle
  /\ UNCHANGED <<request, sessions>>
  /\ last' = [call |-> Idle, pre |-> credentials, pre_users |-> users, at |-> now]
  /\ UNCHANGED <<credentials, users, settings, now>>

Sum(f, S) ==
  LET RECURSIVE Go(_)
      Go(T) == IF T = {} THEN 0
               ELSE LET x == CHOOSE y \in T : TRUE IN f[x] + Go(T \ {x})
  IN Go(S)

TotalRequests == Sum([i \in Creds |-> credentials[i].total_requests], Creds)

\* ------------------------------------------------------------- selection
\* Faulty variants of the pick: fail closed when every row is in cooldown;
\* ignore the cooldown; take the last row when every row is in cooldown.
PickFromFailClosed(rows, model_group, agy_model_group, utcnow) ==
  LET available_credentials ==
        SelectSeq(rows, LAMBDA i :
          is_credential_available(credentials[i], model_group,
                                  agy_model_group, utcnow))
  IN IF available_credentials = <<>> THEN NULL ELSE available_credentials[1]

PickFromFirstRow(rows, model_group, agy_model_group, utcnow) == rows[1]

PickFromLastRowInCooldown(rows, model_group, agy_model_group, utcnow) ==
  LET available_credentials ==
        SelectSeq(rows, LAMBDA i :
          is_credential_available(credentials[i], model_group,
                                  agy_model_group, utcnow))
  IN IF available_credentials = <<>> THEN rows[Len(rows)]
     ELSE available_credentials[1]

\* The list the selection picks from and the row it picks: the first row not
\* in cooldown, else the first row.
PickFrom(rows, model_group, agy_model_group, utcnow) ==
  LET available_credentials ==
        SelectSeq(rows, LAMBDA i :
          is_credential_available(credentials[i], model_group,
                                  agy_model_group, utcnow))
  IN IF available_credentials = <<>> THEN rows[1] ELSE available_credentials[1]

\* Every reading of the microsecond clock is later than the readings before
\* it: a call that gets as far as reading the clock reads utcnow = now + 1.
get_available_credential(user_id, model, exclude_ids, mode) ==
  LET call == [Called("get_available_credential") EXCEPT
                 !.mode = mode, !.user_id = user_id, !.model = model,
                 !.exclude_ids = exclude_ids]
      utcnow == now + 1
  IN
  IF ~validate_mode(mode) THEN
    /\ Observe([call EXCEPT !.raised = TRUE], now)
    /\ UNCHANGED <<credentials, users, settings, now>>
  ELSE
    LET F == QueryFilter(credentials, user_id, model, exclude_ids, mode)
        model_group == ModelGroupOf(model)
    IN IF F = {} THEN
         /\ Observe(call, now)
         /\ UNCHANGED <<credentials, users, settings, now>>
       ELSE
         /\ utcnow <= MaxTime
         /\ now' = utcnow
         /\ \E rows \in OrderByLastUsedAt(credentials, F) :
              LET credential == PickFrom(rows, model_group,
                                         AgyModelGroupOf(model, mode), utcnow)
              IN /\ credentials' = [credentials EXCEPT
                      ![credential] = MarkUsed(@, model_group, utcnow)]
                 /\ Observe([call EXCEPT !.result = credential], utcnow)
         /\ UNCHANGED <<users, settings>>

\* a handler of requester 1 selects a credential for a flash or a pro model
GetAvailableCredential ==
  /\ IsIdle
  /\ UNCHANGED <<request, sessions>>
  /\ \E model \in {"gemini-2.5-flash", "gemini-2.5-pro"},
        exclude_ids \in SUBSET Creds :
          get_available_credential(1, model, exclude_ids, "geminicli")

\* The first selection made on a pool, for every model name and mode and at
\* most one excluded credential.  The requester is user 1: the pools hold
\* the rows of every owner, so the rows of user 1 are the requester's own.
GetFirstAvailableCredential ==
  /\ IsIdle
  /\ UNCHANGED <<request, sessions>>
  /\ TotalRequests = 0
  /\ \E model \in ModelArgs, mode \in Modes,
        exclude_ids \in {{}} \cup {{i} : i \in Creds} :
          get_available_credential(1, model, exclude_ids, mode)

\* time passes
Tick ==
  /\ IsIdle
  /\ UNCHANGED <<request, sessions>>
  /\ now < MaxTime
  /\ now' = now + 1
  /\ UNCHANGED <<credentials, users, settings, last>>

\* ----------------------------------------------------------------- start
NewRow(user_id, api_type, model_tier, is_public, project_id) ==
  [user_id |-> user_id, api_type |-> api_type, model_tier |-> model_tier,
   is_public |-> is_public, is_active |-> TRUE, project_id |-> project_id,
   last_used_at |-> NULL, last_used_flash |-> NULL, last_used_pro |-> NULL,
   last_used_30 |-> NULL, model_cooldowns |-> [g \in AgyGroups |-> NULL],
   total_requests |-> 0, failed_requests |-> 0,
   last_error |-> NoneStr, api_key |-> NoneStr]

InitWith(Tables, Settings, bonus_quota) ==
  /\ credentials \in Tables
  /\ users = [u \in Users |-> [bonus_quota |-> bonus_quota]]
  /\ settings \in Settings
  /\ now = 1
  /\ last = [call |-> Idle, pre |-> credentials, pre_users |-> users, at |-> now]
  /\ request = NoRequest
  /\ sessions = NoSessions

\* One geminicli pool, every credential public.
UniformTables ==
  { [i \in Creds |-> NewRow(IF i = 1 THEN 1 ELSE 2, "geminicli", "2.5", TRUE, "proj")] }

Init ==
  InitWith(UniformTables,
           [credential_pool_mode : {"full_shared"},
            antigravity_pool_mode : {"full_shared"},
            cd_flash : {CdSeconds}, cd_pro : {0}, cd_30 : {CdSeconds},
            quota_flash : {1}, quota_25pro : {1}, quota_30pro : {1}],
           0)

Next ==
  \/ GetAvailableCredential
  \/ Tick
  \/ Return

Spec == Init /\ [][Next]_vars

\* Pools of every kind of row.  A pool is its rows: renumbering the
\* credentials changes nothing the selection reads, so the tables list
\* their rows in the order of RowCode.
OwnerRows == { NewRow(u, a, t, p, "proj") :
                 u \in Users, a \in ValidModes, t \in Tiers, p \in BOOLEAN }

TenantRows == { NewRow(2, a, t, TRUE, j) :
                  a \in ValidModes, t \in Tiers, j \in {NoneStr, "", "proj"} }

RowCode(r) ==
  (((r.user_id * 2 + (IF r.api_type = "geminicli" THEN 0 ELSE 1)) * 2
      + (IF r.model_tier = "3" THEN 1 ELSE 0)) * 2
      + (IF r.is_public THEN 1 ELSE 0)) * 3
      + (IF r.project_id = "proj" THEN 0 ELSE IF r.project_id = "" THEN 1 ELSE 2)

TablesOf(Rows) ==
  { t \in [Creds -> Rows] :
      \A i, j \in Creds : i < j => RowCode(t[i]) <= RowCode(t[j]) }

InitPool ==
  InitWith(TablesOf(OwnerRows) \cup TablesOf(TenantRows),
           [credential_pool_mode : PoolModes,
            antigravity_pool_mode : AgyPoolModes,
            cd_flash : {0}, cd_pro : {0}, cd_30 : {0},
            quota_flash : {1}, quota_25pro : {1}, quota_30pro : {1}],
           0)

NextPool ==
  \/ GetFirstAvailableCredential
  \/ Return

SpecPool == InitPool /\ [][NextPool]_vars

\* ------------------------------------------------------------- lifecycle
\* Upstream error texts, and the markers each contains.
ErrorTexts == {"HTTP 403 PERMISSION_DENIED", "HTTP 500 INTERNAL"}

\* A text of 1200 characters whose only marker lies past the 1000th, and
\* the 1000 characters it begins with.
LongError == "HTTP 500 INTERNAL, 1200 characters, the last ones 403"
LongErrorHead == "HTTP 500 INTERNAL, 1000 characters"

\* A text with a lone surrogate (half of an emoji), and what encoding it
\* with surrogatepass and decoding it with replace makes of it.
LoneSurrogateError == "HTTP 500, then the lone surrogate U+D83D"
LoneSurrogateSafe == "HTTP 500, then U+FFFD U+FFFD U+FFFD"

\* The texts a router may report: empty, authentication failures, an OAuth
\* refusal, transient failures, the long text, the lone surrogate.
FailureTexts ==
  ErrorTexts \cup
    {"", "HTTP 401 UNAUTHENTICATED", "invalid_grant: Token has been revoked",
     "HTTP 503 timeout", "Connection reset by peer", LongError,
     LoneSurrogateError}

\* error.encode('utf-8', errors='surrogatepass')
\*      .decode('utf-8', errors='replace') if error else ""
SafeError(error) ==
  IF error = LoneSurrogateError THEN LoneSurrogateSafe ELSE error

\* marker in error (Python's substring test, case-sensitive)
Contains(marker, error) ==
  IF error = "HTTP 403 PERMISSION_DENIED"
  THEN marker \in {"403", "PERMISSION_DENIED"}
  ELSE IF error = "HTTP 401 UNAUTHENTICATED"
  THEN marker \in {"401", "UNAUTHENTICATED"}
  ELSE IF error = "invalid_grant: Token has been revoked"
  THEN marker = "invalid_grant"
  ELSE IF error = "HTTP 429 RESOURCE_EXHAUSTED"
  THEN marker \in {"429", "RESOURCE_EXHAUSTED"}
  ELSE IF error = "HTTP 500 INTERNAL" THEN marker = "500"
  ELSE IF error = "HTTP 503 timeout" THEN marker \in {"503", "timeout"}
  ELSE IF error = "Connection reset by peer" THEN marker = "Connection reset"
  ELSE IF error = LongError THEN marker \in {"403", "500"}
  ELSE FALSE

TextLength(error) ==
  IF error = LongError THEN 1200
  ELSE IF error = LongErrorHead THEN 1000
  ELSE Len(error)

\* error[:n]
Slice(error, n) ==
  IF TextLength(error) <= n THEN error
  ELSE IF error = LongError /\ n = 1000 THEN LongErrorHead
  ELSE ""

TotalFailures == Sum([i \in Creds |-> credentials[i].failed_requests], Creds)

\* Faulty variant: the text is stored whole.
MarkErrorWhole(db, credential_id, error) ==
  [db EXCEPT ![credential_id].failed_requests = @ + 1,
             ![credential_id].last_error = SafeError(error)]

\* UPDATE ... SET failed_requests = failed_requests + 1,
\*                last_error = safe_error[:1000]
MarkError(db, credential_id, error) ==
  [db EXCEPT ![credential_id].failed_requests = @ + 1,
             ![credential_id].last_error = Slice(SafeError(error), 1000)]

mark_credential_error(credential_id, error) ==
  /\ credentials' = MarkError(credentials, credential_id, error)
  /\ Observe([Called("mark_credential_error") EXCEPT
                !.credential_id = credential_id, !.error = error], now)
  /\ UNCHANGED <<users, settings, now>>

disable_credential(credential_id) ==
  /\ credentials' = [credentials EXCEPT ![credential_id].is_active = FALSE]
  /\ Observe([Called("disable_credential") EXCEPT
                !.credential_id = credential_id], now)
  /\ UNCHANGED <<users, settings, now>>

IsAuthFailure(error) ==
  Contains("401", error) \/ Contains("403", error)
    \/ Contains("PERMISSION_DENIED", error)

\* Faulty variant: the credential's flag is flipped, whatever it was.
FailureTableToggling(db, credential_id, error) ==
  LET db1 == MarkError(db, credential_id, error)
  IN IF IsAuthFailure(error)
     THEN [db1 EXCEPT ![credential_id].is_active = ~@]
     ELSE db1

\* Faulty variant: every failure disables the credential.
FailureTableDisabling(db, credential_id, error) ==
  LET db1 == MarkError(db, credential_id, error)
  IN [db1 EXCEPT ![credential_id].is_active = FALSE]

\* the credentials table after handle_credential_failure
FailureTable(db, credential_id, error) ==
  LET db1 == MarkError(db, credential_id, error)
  IN IF IsAuthFailure(error) /\ db1[credential_id].is_active
     THEN [db1 EXCEPT ![credential_id].is_active = FALSE]
     ELSE db1

Max(a, b) == IF a >= b THEN a ELSE b

\* Faulty variant: the bonus is deducted whether or not the credential was
\* still active.
FailureUsersEveryTime(db, usrs, credential_id, error) ==
  LET cred == db[credential_id]
      deduct == IF cred.model_tier = "3"
                THEN settings.quota_flash + settings.quota_25pro
                       + settings.quota_30pro
                ELSE settings.quota_flash + settings.quota_25pro
  IN IF IsAuthFailure(error) /\ cred.is_public /\ cred.user_id # NULL
     THEN [usrs EXCEPT ![cred.user_id].bonus_quota = Max(0, @ - deduct)]
     ELSE usrs

\* Faulty variant: the bonus is not clamped at zero.
FailureUsersUnclamped(db, usrs, credential_id, error) ==
  LET cred == db[credential_id]
      deduct == IF cred.model_tier = "3"
                THEN settings.quota_flash + settings.quota_25pro
                       + settings.quota_30pro
                ELSE settings.quota_flash + settings.quota_25pro
  IN IF /\ IsAuthFailure(error) /\ cred.is_active
        /\ cred.is_public /\ cred.user_id # NULL
     THEN [usrs EXCEPT ![cred.user_id].bonus_quota = @ - deduct]
     ELSE usrs

\* the users table after handle_credential_failure
FailureUsers(db, usrs, credential_id, error) ==
  LET cred == db[credential_id]
      deduct == IF cred.model_tier = "3"
                THEN settings.quota_flash + settings.quota_25pro
                       + settings.quota_30pro
                ELSE settings.quota_flash + settings.quota_25pro
  IN IF /\ IsAuthFailure(error) /\ cred.is_active
        /\ cred.is_public /\ cred.user_id # NULL
     THEN [usrs EXCEPT ![cred.user_id].bonus_quota = Max(0, @ - deduct)]
     ELSE usrs

handle_credential_failure(credential_id, error) ==
  /\ credentials' = FailureTable(credentials, credential_id, error)
  /\ users' = FailureUsers(credentials, users, credential_id, error)
  /\ Observe([Called("handle_credential_failure") EXCEPT
                !.credential_id = credential_id, !.error = error], now)
  /\ UNCHANGED <<settings, now>>

\* the cooldown used when the 429 response carries none
Default429Cd == 60

\* Faulty variant: the stamp of every group is written.
SetEveryGroupStamp(c, model_group, t) ==
  [c EXCEPT !.last_used_30 = t, !.last_used_pro = t, !.last_used_flash = t]

SetGroupStamp(c, model_group, t) ==
  IF model_group = "30" THEN [c EXCEPT !.last_used_30 = t]
  ELSE IF model_group = "pro" THEN [c EXCEPT !.last_used_pro = t]
  ELSE [c EXCEPT !.last_used_flash = t]

\* Faulty variant: the time of the response, whatever the cooldown.
CooldownStampNow(utcnow, cd_seconds, config_cd) == utcnow

\* last_used such that last_used + config_cd = utcnow + cd_seconds
CooldownStamp(utcnow, cd_seconds, config_cd) ==
  IF config_cd > 0 THEN utcnow + cd_seconds - config_cd ELSE utcnow

\* The clock readings of one call (time.time() in the parsing, utcnow() in
\* the handler) are taken as one.
handle_429_rate_limit(credential_id, model, error_text, retry_after) ==
  LET utcnow == now + 1
      call == [Called("handle_429_rate_limit") EXCEPT
                 !.credential_id = credential_id, !.model = model,
                 !.error_text = error_text, !.retry_after = retry_after]
      parsed == parse_429_retry_after(error_text, retry_after, utcnow)
      cd_seconds == IF parsed.cd_seconds <= 0 THEN Default429Cd
                    ELSE parsed.cd_seconds
      model_group == get_model_group(model)
      config_cd == get_cd_seconds(model_group)
      last_used == CooldownStamp(utcnow, cd_seconds, config_cd)
      cred == SetGroupStamp(credentials[credential_id], model_group, last_used)
  IN /\ utcnow <= MaxTime
     /\ now' = utcnow
     /\ IF parsed.raised
        THEN /\ Observe([call EXCEPT !.raised = TRUE], utcnow)
             /\ UNCHANGED <<credentials, users, settings>>
        ELSE /\ credentials' =
                  [credentials EXCEPT ![credential_id] =
                     [cred EXCEPT !.last_error = "429",
                                  !.failed_requests = @ + 1]]
             /\ Observe([call EXCEPT !.result = cd_seconds], utcnow)
             /\ UNCHANGED <<users, settings>>

\* Faulty variant: the map is built anew, with the one entry.
set_model_group_cooldown_anew(credential_id, model_group, reset_time) ==
  /\ credentials' =
       [credentials EXCEPT ![credential_id].model_cooldowns =
          [g \in AgyGroups |-> IF g = model_group THEN reset_time ELSE NULL]]
  /\ Observe([Called("set_model_group_cooldown") EXCEPT
                !.credential_id = credential_id, !.model = model_group,
                !.result = reset_time], now)
  /\ UNCHANGED <<users, settings, now>>

\* The map is stored as JSON text that json.loads reads back as written;
\* reset_time is a naive UTC datetime, which isoformat() writes and
\* fromisoformat() reads back unchanged.
set_model_group_cooldown(credential_id, model_group, reset_time) ==
  /\ credentials' =
       [credentials EXCEPT ![credential_id].model_cooldowns[model_group] =
          reset_time]
  /\ Observe([Called("set_model_group_cooldown") EXCEPT
                !.credential_id = credential_id, !.model = model_group,
                !.result = reset_time], now)
  /\ UNCHANGED <<users, settings, now>>

\* get_access_token_and_project on row credential_id of db.  `expired` is
\* what _is_token_expired finds, `refreshed` the token the OAuth endpoint
\* gives (NoneStr: none), `fetched` the tenant id the handshake gives.
\* The credentials are OAuth credentials with a refresh token.
\* Faulty variant: a failed refresh clears the stored token.
get_access_token_clearing(db, credential_id, expired, refreshed) ==
  LET c == db[credential_id]
      must_refresh == ~Truthy(c.api_key) \/ expired
  IN IF ~must_refresh THEN [db |-> db, access_token |-> c.api_key]
     ELSE [db |-> [db EXCEPT ![credential_id].api_key = refreshed],
           access_token |-> refreshed]

\* get_access_token on row credential_id of db: the stored token while it
\* has not expired; otherwise the refreshed one, stored, or, the refresh
\* having failed, the stored one (NoneStr: None).
get_access_token(db, credential_id, expired, refreshed) ==
  LET c == db[credential_id]
      must_refresh == ~Truthy(c.api_key) \/ expired
  IN IF must_refresh /\ Truthy(refreshed)
     THEN [db |-> [db EXCEPT ![credential_id].api_key = refreshed],
           access_token |-> refreshed]
     ELSE [db |-> db,
           access_token |-> IF Truthy(c.api_key) THEN c.api_key ELSE NoneStr]

\* Faulty variant: a credential whose tenant id cannot be fetched is disabled.
TokenAndProjectDisabling(db, credential_id, expired, refreshed, fetched) ==
  LET c == db[credential_id]
      token == get_access_token(db, credential_id, expired, refreshed)
  IN IF ~Truthy(token.access_token)
     THEN [db |-> token.db, access_token |-> NoneStr, project_id |-> NoneStr]
     ELSE IF Truthy(c.project_id)
     THEN [db |-> token.db, access_token |-> token.access_token,
           project_id |-> c.project_id]
     ELSE IF Truthy(fetched)
     THEN [db |-> [token.db EXCEPT ![credential_id].project_id = fetched],
           access_token |-> token.access_token, project_id |-> fetched]
     ELSE [db |-> [token.db EXCEPT ![credential_id].is_active = FALSE],
           access_token |-> token.access_token, project_id |-> NoneStr]

TokenAndProject(db, credential_id, expired, refreshed, fetched) ==
  LET c == db[credential_id]
      token == get_access_token(db, credential_id, expired, refreshed)
      db1 == token.db
      access_token == token.access_token
  IN IF ~Truthy(access_token)
     THEN [db |-> db1, access_token |-> NoneStr, project_id |-> NoneStr]
     ELSE IF Truthy(c.project_id)
     THEN [db |-> db1, access_token |-> access_token,
           project_id |-> c.project_id]
     ELSE IF Truthy(fetched)
     THEN [db |-> [db1 EXCEPT ![credential_id].project_id = fetched],
           access_token |-> access_token, project_id |-> fetched]
     ELSE [db |-> db1, access_token |-> access_token, project_id |-> NoneStr]

get_access_token_and_project(credential_id, mode, expired, refreshed, fetched) ==
  LET call == [Called("get_access_token_and_project") EXCEPT
                 !.credential_id = credential_id, !.mode = mode,
                 !.expired = expired, !.refreshed = refreshed]
      r == TokenAndProject(credentials, credential_id, expired, refreshed,
                           fetched)
  IN IF ~validate_mode(mode)
     THEN /\ Observe([call EXCEPT !.raised = TRUE], now)
          /\ UNCHANGED <<credentials, users, settings, now>>
     ELSE /\ credentials' = r.db
          /\ Observe([call EXCEPT !.access_token = r.access_token,
                                  !.project_id = r.project_id], now)
          /\ UNCHANGED <<users, settings, now>>

\* The selection, then the token and tenant id of the credential selected.
preheat_next_credential(user_id, model, exclude_ids, mode, expired, refreshed, fetched) ==
  LET call == [Called("preheat_next_credential") EXCEPT
                 !.mode = mode, !.user_id = user_id, !.model = model,
                 !.exclude_ids = exclude_ids]
      utcnow == now + 1
  IN IF ~validate_mode(mode)
     THEN /\ Observe([call EXCEPT !.raised = TRUE], now)
          /\ UNCHANGED <<credentials, users, settings, now>>
     ELSE LET F == QueryFilter(credentials, user_id, model, exclude_ids, mode)
              model_group == ModelGroupOf(model)
          IN IF F = {}
             THEN /\ Observe(call, now)
                  /\ UNCHANGED <<credentials, users, settings, now>>
             ELSE /\ utcnow <= MaxTime
                  /\ now' = utcnow
                  /\ \E rows \in OrderByLastUsedAt(credentials, F) :
                       LET next_credential ==
                             PickFrom(rows, model_group,
                                      AgyModelGroupOf(model, mode), utcnow)
                           db1 == [credentials EXCEPT ![next_credential] =
                                     MarkUsed(@, model_group, utcnow)]
                           r == TokenAndProject(db1, next_credential, expired,
                                                refreshed, fetched)
                           ok == Truthy(r.access_token) /\ Truthy(r.project_id)
                       IN /\ credentials' = r.db
                          /\ Observe(
                               [call EXCEPT
                                  !.credential_id = next_credential,
                                  !.result = IF ok THEN next_credential
                                             ELSE NULL,
                                  !.access_token = IF ok THEN r.access_token
                                                   ELSE NoneStr,
                                  !.project_id = IF ok THEN r.project_id
                                                 ELSE NoneStr],
                               utcnow)
                  /\ UNCHANGED <<users, settings>>

\* manage.py: an administrator flips a credential's flag
toggle_credential(credential_id) ==
  /\ credentials' = [credentials EXCEPT ![credential_id].is_active = ~@]
  /\ Observe([Called("toggle_credential") EXCEPT
                !.credential_id = credential_id,
                !.result = IF credentials[credential_id].is_active THEN 0 ELSE 1],
             now)
  /\ UNCHANGED <<users, settings, now>>

\* bounds of the lifecycle: failures reported, and the owner's bonus quota
MaxFailures == 1
BonusQuota == 4

\* The requests of the lifecycle: one requester, one antigravity model.
\* A router excludes the credentials the selection has handed it, and
\* reports once on the one it holds, the last handed out, before it asks
\* for the next.
HandedOut == { i \in Creds : credentials[i].total_requests > 0 }

Held ==
  { i \in HandedOut :
      \A j \in HandedOut :
         credentials[j].last_used_at <= credentials[i].last_used_at }

Unreported ==
  { i \in Held : credentials[i].failed_requests < credentials[i].total_requests }

GetNextAvailableCredential ==
  /\ IsIdle
  /\ UNCHANGED <<request, sessions>>
  /\ Unreported = {}
  /\ get_available_credential(1, "claude-sonnet-4-5", HandedOut, "antigravity")

PreheatNextCredential ==
  /\ IsIdle
  /\ UNCHANGED <<request, sessions>>
  /\ Unreported = {}
  /\ \E refreshed \in {NoneStr, "at1"} :
       preheat_next_credential(1, "claude-sonnet-4-5", HandedOut,
                               "antigravity", TRUE, refreshed, NoneStr)

MarkCredentialError ==
  /\ IsIdle
  /\ UNCHANGED <<request, sessions>>
  /\ TotalFailures < MaxFailures
  /\ \E credential_id \in Unreported :
       mark_credential_error(credential_id, "HTTP 500 INTERNAL")

DisableCredential ==
  /\ IsIdle
  /\ UNCHANGED <<request, sessions>>
  /\ \E credential_id \in Held : disable_credential(credential_id)

HandleCredentialFailure ==
  /\ IsIdle
  /\ UNCHANGED <<request, sessions>>
  /\ TotalFailures < MaxFailures
  /\ \E credential_id \in Unreported, error \in ErrorTexts :
       handle_credential_failure(credential_id, error)

Handle429RateLimit ==
  /\ IsIdle
  /\ UNCHANGED <<request, sessions>>
  /\ TotalFailures < MaxFailures
  /\ \E credential_id \in Unreported,
        error_text \in {PlainText, RetryDelayText(CdSeconds)} :
       handle_429_rate_limit(credential_id, "claude-sonnet-4-5", error_text,
                             NoneStr)

SetModelGroupCooldown ==
  /\ IsIdle
  /\ UNCHANGED <<request, sessions>>
  /\ \E credential_id \in Unreported :
       set_model_group_cooldown(credential_id, "claude", MaxTime)

GetAccessTokenAndProject ==
  /\ IsIdle
  /\ UNCHANGED <<request, sessions>>
  /\ \E credential_id \in
          Unreported \cup { i \in Creds : ~Truthy(credentials[i].project_id) },
        expired \in BOOLEAN, refreshed \in {NoneStr, "at1"},
        fetched \in {NoneStr, "proj"} :
       get_access_token_and_project(credential_id, "antigravity", expired,
                                    refreshed, fetched)

\* An antigravity pool of public credentials of user 2; the last one has no
\* tenant id yet.
LifeTables ==
  { [i \in Creds |-> NewRow(2, "antigravity", "2.5", TRUE,
                            IF i = NumCreds THEN NoneStr ELSE "proj")] }

LifeSettings ==
  [credential_pool_mode : {"full_shared"},
   antigravity_pool_mode : {"full_shared"},
   cd_flash : {CdSeconds}, cd_pro : {0}, cd_30 : {0},
   quota_flash : {1}, quota_25pro : {1}, quota_30pro : {1}]

InitLife == InitWith(LifeTables, LifeSettings, BonusQuota)

NextLife ==
  \/ GetNextAvailableCredential
  \/ PreheatNextCredential
  \/ MarkCredentialError
  \/ DisableCredential
  \/ HandleCredentialFailure
  \/ Handle429RateLimit
  \/ SetModelGroupCooldown
  \/ GetAccessTokenAndProject
  \/ Return

SpecLife == InitLife /\ [][NextLife]_vars

\* Requests one after another, each with its own exclusion set, while
\* credentials fail and an administrator flips their flags.
GetFreshAvailableCredential ==
  /\ IsIdle
  /\ UNCHANGED <<request, sessions>>
  /\ TotalRequests <= TotalFailures
  /\ \E exclude_ids \in {{}} \cup {{i} : i \in Creds} :
       get_available_credential(1, "claude-sonnet-4-5", exclude_ids,
                                "antigravity")

ReportCredentialFailure ==
  /\ IsIdle
  /\ UNCHANGED <<request, sessions>>
  /\ TotalFailures < MaxFailures
  /\ \E credential_id \in HandedOut, error \in ErrorTexts :
       handle_credential_failure(credential_id, error)

ToggleCredential ==
  /\ IsIdle
  /\ UNCHANGED <<request, sessions>>
  /\ \E credential_id \in Creds : toggle_credential(credential_id)

NextAdmin ==
  \/ GetFreshAvailableCredential
  \/ ReportCredentialFailure
  \/ ToggleCredential
  \/ Tick
  \/ Return

SpecAdmin == InitLife /\ [][NextAdmin]_vars

\* ----------------------------------------------------------- round robin
\* Pools of one mode in which no credential is in cooldown: a row was never
\* used, or was last used at the first clock reading for a pro model, whose
\* group has no cooldown.  The last credential may be disabled.
RoundRow(i, api_type, used, is_active) ==
  [NewRow(IF i = 1 THEN 1 ELSE 2, api_type, "2.5", TRUE, "proj") EXCEPT
     !.last_used_at = used, !.last_used_pro = used,
     !.total_requests = IF used = NULL THEN 0 ELSE 1,
     !.is_active = is_active]

RoundTables ==
  { [i \in Creds |-> RoundRow(i, api_type, used[i], i < NumCreds \/ is_active)] :
      api_type \in ValidModes, used \in [Creds -> {NULL, 1}],
      is_active \in BOOLEAN }

RoundSettings ==
  [credential_pool_mode : {"full_shared"},
   antigravity_pool_mode : {"full_shared"},
   cd_flash : {2, CdSeconds}, cd_pro : {0}, cd_30 : {0},
   quota_flash : {1}, quota_25pro : {1}, quota_30pro : {1}]

InitRound == InitWith(RoundTables, RoundSettings, 0)

\* One caller selects again and again with the arguments of its first call
\* and no exclusion set; nothing else reads or writes the store.
GetAvailableCredentialAgain ==
  /\ UNCHANGED <<request, sessions>>
  /\ \E user_id \in Users, model \in {"gemini-2.5-flash", "gemini-2.5-pro"},
        mode \in ValidModes :
          /\ ~IsIdle => /\ last.call.user_id = user_id
                        /\ last.call.model = model
                        /\ last.call.mode = mode
          /\ get_available_credential(user_id, model, {}, mode)

NextRound ==
  \/ GetAvailableCredentialAgain

SpecRound == InitRound /\ [][NextRound]_vars

\* Failures reported on credentials of every kind: credential 1 is of either
\* tier, public or not, owned by user 2 or by nobody, active or disabled; the
\* others are public tier-3 credentials of user 2, whose bonus is anything
\* up to BonusQuota.
FailRows ==
  { [NewRow(user_id, "antigravity", model_tier, is_public, "proj")
       EXCEPT !.is_active = is_active] :
      user_id \in {NULL, 2}, model_tier \in Tiers,
      is_public \in BOOLEAN, is_active \in BOOLEAN }

FailTables ==
  { [i \in Creds |-> IF i = 1 THEN row
                     ELSE NewRow(2, "antigravity", "3", TRUE, "proj")] :
      row \in FailRows }

InitFail ==
  /\ credentials \in FailTables
  /\ \E bonus_quota \in 0..BonusQuota :
       users = [u \in Users |-> [bonus_quota |->
                                   IF u = 2 THEN bonus_quota ELSE BonusQuota]]
  /\ settings \in LifeSettings
  /\ now = 1
  /\ last = [call |-> Idle, pre |-> credentials, pre_users |-> users, at |-> now]
  /\ request = NoRequest
  /\ sessions = NoSessions

HandleAnyCredentialFailure ==
  /\ IsIdle
  /\ UNCHANGED <<request, sessions>>
  /\ TotalFailures <= MaxFailures
  /\ \E credential_id \in {1, NumCreds}, error \in FailureTexts :
       handle_credential_failure(credential_id, error)

NextFail ==
  \/ HandleAnyCredentialFailure
  \/ Return

SpecFail == InitFail /\ [][NextFail]_vars

\* ------------------------------------------- failures handled side by side
\* handle_credential_failure statement by statement, in sessions of their
\* own on the one store.  A SELECT returns what is committed when it runs;
\* the commit writes the attributes the session has assigned.
BonusDeduct(cred) ==
  IF cred.model_tier = "3"
  THEN settings.quota_flash + settings.quota_25pro + settings.quota_30pro
  ELSE settings.quota_flash + settings.quota_25pro

\* mark_credential_error: the UPDATE and its commit
SessionMarksError(p) ==
  /\ IsIdle
  /\ sessions[p].pc = "idle"
  /\ \E credential_id \in {1, NumCreds},
        error \in {"HTTP 403 PERMISSION_DENIED", "HTTP 500 INTERNAL"} :
       /\ credentials' = MarkError(credentials, credential_id, error)
       /\ sessions' =
            [sessions EXCEPT
               ![p] = [@ EXCEPT !.pc = IF IsAuthFailure(error)
                                       THEN "select_credential" ELSE "done",
                                !.credential_id = credential_id,
                                !.error = error]]
  /\ UNCHANGED <<users, settings, now, last, request>>

\* select(Credential).where(Credential.id == credential_id), and the test
\* of cred.is_active and of cred.is_public and cred.user_id
SessionSelectsCredential(p) ==
  /\ IsIdle
  /\ sessions[p].pc = "select_credential"
  /\ LET cred == credentials[sessions[p].credential_id]
     IN sessions' =
          [sessions EXCEPT
             ![p] = [@ EXCEPT !.cred = cred,
                              !.pc = IF ~cred.is_active THEN "done"
                                     ELSE IF cred.is_public
                                             /\ cred.user_id # NULL
                                     THEN "select_user" ELSE "commit"]]
  /\ UNCHANGED <<credentials, users, settings, now, last, request>>

\* select(User).where(User.id == cred.user_id)
SessionSelectsUser(p) ==
  /\ IsIdle
  /\ sessions[p].pc = "select_user"
  /\ sessions' =
       [sessions EXCEPT
          ![p] = [@ EXCEPT
                    !.bonus_quota = users[sessions[p].cred.user_id].bonus_quota,
                    !.pc = "commit"]]
  /\ UNCHANGED <<credentials, users, settings, now, last, request>>

\* db.commit(): is_active = False, and the bonus computed from the row read
SessionCommits(p) ==
  /\ IsIdle
  /\ sessions[p].pc = "commit"
  /\ credentials' =
       [credentials EXCEPT ![sessions[p].credential_id].is_active = FALSE]
  /\ users' =
       IF sessions[p].cred.is_public /\ sessions[p].cred.user_id # NULL
       THEN [users EXCEPT
               ![sessions[p].cred.user_id].bonus_quota =
                  Max(0, sessions[p].bonus_quota
                           - BonusDeduct(sessions[p].cred))]
       ELSE users
  /\ sessions' = [sessions EXCEPT ![p] = [@ EXCEPT !.pc = "done"]]
  /\ UNCHANGED <<settings, now, last, request>>

\* credential 1 of either tier, public or not; the others public tier-3
\* credentials; all of user 2, whose bonus is BonusQuota
RaceTables ==
  { [i \in Creds |->
       IF i = 1 THEN NewRow(2, "antigravity", model_tier, is_public, "proj")
       ELSE NewRow(2, "antigravity", "3", TRUE, "proj")] :
      model_tier \in Tiers, is_public \in BOOLEAN }

InitRace == InitWith(RaceTables, LifeSettings, BonusQuota)

NextRace ==
  \/ \E p \in Sessions : SessionMarksError(p)
  \/ \E p \in Sessions : SessionSelectsCredential(p)
  \/ \E p \in Sessions : SessionSelectsUser(p)
  \/ \E p \in Sessions : SessionCommits(p)

SpecRace == InitRace /\ [][NextRace]_vars

\* 429 responses of every shape handled on credential 1: texts each step of
\* the parsing reads, reset times before and after the call, Retry-After
\* headers that are numbers and that are not.
ErrorBodies ==
  {PlainText, RetryDelayText(60), RetryDelayText(0),
   QuotaResetDelayText("1", "2", "3"),
   QuotaResetDelayText(NoneStr, NoneStr, "1.5"),
   QuotaResetDelayText(NoneStr, NoneStr, "0.5"),
   QuotaResetDelayText(NoneStr, NoneStr, "1.2.3"),
   QuotaResetDelayText(NoneStr, NoneStr, NoneStr),
   RetryAfterText(45), SecondsText(30)}
    \cup { QuotaBody(t) : t \in 1..(MaxTime + 1) }

RetryAfterHeaders == {NoneStr, "60", "-5", "soon"}

Handle429Response ==
  /\ IsIdle
  /\ UNCHANGED <<request, sessions>>
  /\ TotalFailures < MaxFailures
  /\ \E error_text \in ErrorBodies, retry_after \in RetryAfterHeaders :
       handle_429_rate_limit(1, "gemini-2.5-flash", error_text, retry_after)

\* a reset time is parsed out of a quota error
parse_quota_error(error_text) ==
  LET r == parse_429_quota_error(error_text, now)
  IN /\ Observe([Called("parse_429_quota_error") EXCEPT
                   !.error_text = error_text, !.result = r.reset_time,
                   !.model_group = r.model_group], now)
     /\ UNCHANGED <<credentials, users, settings, now>>

QuotaErrors ==
  { QuotaBodyOf(model, t, utc_offset) :
      model \in {"claude-sonnet-4-5", "gemini-2.5-flash"},
      t \in {MaxTime, MaxTime + 1}, utc_offset \in {0, 1} }
    \cup {PlainText, QuotaDelayBody("gemini-2.5-flash"),
          [QuotaBody(MaxTime) EXCEPT !.model = NoneStr]}

ParseQuotaError ==
  /\ IsIdle
  /\ UNCHANGED <<request, sessions>>
  /\ \E error_text \in QuotaErrors : parse_quota_error(error_text)

NextParse ==
  \/ Handle429Response
  \/ ParseQuotaError
  \/ Tick
  \/ Return

\* the same pool with no cooldown configured
InitParse ==
  InitWith(LifeTables, { [x EXCEPT !.cd_flash = 0] : x \in LifeSettings },
           BonusQuota)

SpecParse == InitParse /\ [][NextParse]_vars

\* 429 responses that carry several cooldown sources at once: a reset
\* timestamp or none, a retryDelay field or none, a quotaResetDelay field of
\* four shapes or none, and one of the two free texts or none; with each, one
\* of the Retry-After headers.
SourceTexts ==
  { [model |-> NoneStr, quotaResetTimeStamp |-> t, utc_offset |-> 0,
     retryDelay |-> retryDelay, quotaResetDelay |-> d,
     retry_after |-> text[1], seconds |-> text[2]] :
      t \in {NULL, 2, MaxTime + 1},
      retryDelay \in {NoMatch, 60},
      d \in {<<>>, <<"1", "2", "3">>, <<NoneStr, NoneStr, "0.5">>,
             <<NoneStr, NoneStr, "1.2.3">>},
      text \in {<<NoMatch, NoMatch>>, <<45, 45>>, <<NoMatch, 30>>} }

\* parse_429_retry_after on its own, time.time() reading the clock
Parse429RetryAfter ==
  /\ IsIdle
  /\ UNCHANGED <<request, sessions>>
  /\ \E error_text \in SourceTexts, retry_after \in RetryAfterHeaders :
       LET r == parse_429_retry_after(error_text, retry_after, now)
       IN Observe([Called("parse_429_retry_after") EXCEPT
                     !.error_text = error_text, !.retry_after = retry_after,
                     !.raised = r.raised, !.result = r.cd_seconds], now)
  /\ UNCHANGED <<credentials, users, settings, now>>

NextPriority ==
  \/ Parse429RetryAfter
  \/ Tick
  \/ Return

SpecPriority == InitParse /\ [][NextPriority]_vars

\* Cooldowns of both kinds set and read.  The pool is of one mode, public
\* credentials of user 2; the fixed cooldown of the flash group is on or off.
\* A 429 is handled on a credential, a cooldown-map entry is set, and
\* credentials are selected in the pool's mode, with and without a model.
LimitCredential ==
  /\ IsIdle
  /\ UNCHANGED <<request, sessions>>
  /\ TotalFailures < MaxFailures
  /\ \/ \E credential_id \in {1, NumCreds},
           error_text \in {PlainText, RetryDelayText(CdSeconds)} :
          handle_429_rate_limit(credential_id, "gemini-2.5-flash", error_text,
                                NoneStr)
     \/ handle_429_rate_limit(1, "gemini-2.5-pro", PlainText, NoneStr)

CoolCredential ==
  /\ IsIdle
  /\ UNCHANGED <<request, sessions>>
  /\ \E model_group \in {"gemini", "claude"}, reset_time \in {3, MaxTime + 1} :
       set_model_group_cooldown(1, model_group, reset_time)

SelectCredential ==
  /\ IsIdle
  /\ UNCHANGED <<request, sessions>>
  /\ \E model \in {"gemini-2.5-flash", NoneStr} :
       get_available_credential(1, model, {}, credentials[1].api_type)

LimitTables ==
  { [i \in Creds |-> NewRow(2, api_type, "2.5", TRUE, "proj")] :
      api_type \in ValidModes }

LimitSettings ==
  { [x EXCEPT !.cd_flash = cd] : x \in LifeSettings, cd \in {0, CdSeconds} }

InitLimit == InitWith(LimitTables, LimitSettings, BonusQuota)

NextLimit ==
  \/ LimitCredential
  \/ CoolCredential
  \/ SelectCredential
  \/ Return

SpecLimit == InitLimit /\ [][NextLimit]_vars

\* The handshake against endpoints that answer in every way: the first
\* answer, the answer to the tier lookup, and the answers to the polling,
\* some pending ones and then a last one (or none: the connection fails).
Pending(n) == [k \in 1..n |-> "pending"]

PollSequences ==
  { Pending(n) \o <<response>> :
      n \in 0..max_attempts, response \in PollResponses \ {"pending"} }
    \cup { Pending(n) : n \in {0, max_attempts - 1} }

FetchProjectId ==
  /\ IsIdle
  /\ UNCHANGED <<request, sessions>>
  /\ \E load \in LoadResponses, tier \in TierResponses,
        polls \in PollSequences :
       LET responses == [load |-> load, tier |-> tier, polls |-> polls]
           r == fetch_project_id(responses)
       IN /\ Observe([Called("fetch_project_id") EXCEPT
                        !.responses = responses, !.raised = r.raised,
                        !.project_id = r.value], now)
          /\ UNCHANGED <<credentials, users, settings, now>>

\* the onboarding step on its own
TryOnboardUser ==
  /\ IsIdle
  /\ UNCHANGED <<request, sessions>>
  /\ \E tier \in TierResponses, polls \in PollSequences :
       LET r == _try_onboard_user(tier, polls)
       IN /\ Observe([Called("_try_onboard_user") EXCEPT
                        !.responses = [NoResponses EXCEPT !.tier = tier,
                                                          !.polls = polls],
                        !.raised = r.raised, !.project_id = r.value,
                        !.result = r.attempt], now)
          /\ UNCHANGED <<credentials, users, settings, now>>

NextFetch ==
  \/ FetchProjectId
  \/ TryOnboardUser
  \/ Return

SpecFetch == InitParse /\ [][NextFetch]_vars

\* ------------------------------------------------------------- the router
\* antigravity_proxy.chat_completions with handle_non_stream: one request of
\* user 1 for one model, against a pool whose first credentials are active.
max_retries == 2

\* asyncio.wait_for(preheat_task, timeout=5.0)
PreheatTimeout == 5

UpstreamErrors ==
  {"HTTP 401 UNAUTHENTICATED", "HTTP 429 RESOURCE_EXHAUSTED",
   "HTTP 400 INVALID_ARGUMENT"}

is_auth_error(error_str) ==
  \E code \in {"401", "UNAUTHENTICATED", "invalid_grant",
                "Token has been expired", "token expired"} :
     Contains(code, error_str)

should_retry(error_str) ==
  \E code \in {"401", "404", "500", "502", "503", "504", "429",
                "UNAUTHENTICATED", "RESOURCE_EXHAUSTED", "NOT_FOUND",
                "ECONNRESET", "socket hang up", "ConnectionReset",
                "Connection reset", "ETIMEDOUT", "ECONNREFUSED",
                "Gateway Timeout", "timeout"} :
     Contains(code, error_str)

\* Faulty variant: the loop runs one iteration more.
ContinueOnceMore(r) ==
  IF r.retry_attempt <= max_retries
  THEN [r EXCEPT !.pc = "upstream", !.retry_attempt = @ + 1]
  ELSE [r EXCEPT !.pc = "done", !.response = "ALL_FAILED"]

\* `continue`: the next iteration of the loop, or, after the last one, the
\* answer that follows the loop
Continue(r) ==
  IF r.retry_attempt < max_retries
  THEN [r EXCEPT !.pc = "upstream", !.retry_attempt = @ + 1]
  ELSE [r EXCEPT !.pc = "done", !.response = "ALL_FAILED"]

\* Faulty variant: the task is given an empty exclusion set.
StartPreheatExcludingNone(r) ==
  [r EXCEPT !.preheat_task = "running", !.preheat_result = NULL,
            !.outstanding = @ + 1, !.exclude_ids = {}]

\* create_preheat_task: one more task of the request is under way, with the
\* copy of tried_credential_ids made at its start
StartPreheat(r) ==
  [r EXCEPT !.preheat_task = "running", !.preheat_result = NULL,
            !.outstanding = @ + 1, !.exclude_ids = r.tried_credential_ids]

\* Faulty variant: the handle is cleared and the task it held runs on, as if
\* wait_for did not cancel the task it gave up on.
DropPreheatShielded(r) ==
  [r EXCEPT !.preheat_task = "none", !.preheat_result = NULL,
            !.exclude_ids = {}]

\* `preheat_task = None` after the await or the read of the result: the task
\* has ended, or wait_for has cancelled it
DropPreheat(r) ==
  [r EXCEPT !.preheat_task = "none", !.preheat_result = NULL,
            !.outstanding = @ - 1, !.exclude_ids = {}]

\* Faulty variant: the switch starts no preheat task.
SwitchToUnprimed(r, new_credential) ==
  Continue([r EXCEPT !.credential = new_credential,
                     !.tried_credential_ids = @ \cup {new_credential},
                     !.new_credential = NULL])

\* the client rebuilt on a new credential, the next preheat task started
SwitchTo(r, new_credential) ==
  LET switched == [r EXCEPT
                     !.credential = new_credential,
                     !.tried_credential_ids = @ \cup {new_credential},
                     !.new_credential = NULL]
  IN Continue(IF r.retry_attempt + 1 < max_retries
              THEN StartPreheat(switched) ELSE switched)

\* Faulty variant: with no credential from the preheat task the loop goes on
\* with the credential it has.
ContinueUnselected(r) == Continue(DropPreheat(r))

\* no credential from the preheat task: on to the synchronous selection
SelectManually(r) == [DropPreheat(r) EXCEPT !.pc = "select"]

StartRequest ==
  /\ IsIdle
  /\ UNCHANGED sessions
  /\ request.pc = "none"
  /\ get_available_credential(1, "claude-sonnet-4-5", {}, "antigravity")
  /\ request' =
       IF last'.call.result = NULL
       THEN [request EXCEPT !.pc = "done", !.response = "NO_CREDENTIAL"]
       ELSE [request EXCEPT !.pc = "token",
                            !.credential = last'.call.result,
                            !.tried_credential_ids = {last'.call.result}]

ResolveToken ==
  /\ IsIdle
  /\ UNCHANGED sessions
  /\ request.pc = "token"
  /\ \E refreshed \in {NoneStr, "at1"} :
       get_access_token_and_project(request.credential, "antigravity", TRUE,
                                    refreshed, NoneStr)
  /\ request' =
       IF ~Truthy(last'.call.access_token)
       THEN [request EXCEPT !.pc = "token_error"]
       ELSE IF ~Truthy(last'.call.project_id)
       THEN [request EXCEPT !.pc = "project_error"]
       ELSE IF max_retries > 0
       THEN StartPreheat([request EXCEPT !.pc = "upstream"])
       ELSE [request EXCEPT !.pc = "upstream"]

\* the texts stand for the two messages of the router
MarkResolveError ==
  /\ IsIdle
  /\ UNCHANGED sessions
  /\ request.pc \in {"token_error", "project_error"}
  /\ mark_credential_error(request.credential,
                           IF request.pc = "token_error"
                           THEN "Token refresh failed"
                           ELSE "no Antigravity project_id")
  /\ request' =
       [request EXCEPT !.pc = "done",
                       !.response = IF request.pc = "token_error"
                                    THEN "TOKEN_ERROR" ELSE "CONFIG_ERROR"]

\* client.chat_completions: an answer, or an exception with a text
CallUpstream ==
  /\ IsIdle
  /\ UNCHANGED sessions
  /\ request.pc = "upstream"
  /\ LET call == [Called("chat_completions") EXCEPT
                    !.credential_id = request.credential]
         utcnow == now + 1
     IN \/ /\ utcnow <= MaxTime
           /\ now' = utcnow
           /\ credentials' =
                [credentials EXCEPT
                   ![request.credential].total_requests = @ + 1,
                   ![request.credential].last_used_at = utcnow]
           /\ Observe(call, utcnow)
           /\ request' =
                [request EXCEPT
                   !.pc = "done", !.response = "200",
                   !.attempts = Append(@, [credential |-> request.credential,
                                           error |-> "",
                                           disabled |-> FALSE])]
        \/ \E error \in UpstreamErrors :
             /\ Observe([call EXCEPT !.error = error], now)
             /\ request' =
                  [request EXCEPT
                     !.pc = "except", !.error_str = error,
                     !.attempts = Append(@, [credential |-> request.credential,
                                             error |-> error,
                                             disabled |-> FALSE])]
             /\ UNCHANGED <<credentials, now>>
  /\ UNCHANGED <<users, settings>>

\* an authentication error and the refresh gives a token: the same
\* credential again
RefreshCurrentToken ==
  /\ IsIdle
  /\ UNCHANGED sessions
  /\ request.pc = "except"
  /\ is_auth_error(request.error_str)
  /\ credentials' = [credentials EXCEPT ![request.credential].api_key = "at2"]
  /\ Observe([Called("refresh_access_token") EXCEPT
                !.credential_id = request.credential,
                !.access_token = "at2"], now)
  /\ request' = Continue(request)
  /\ UNCHANGED <<users, settings, now>>

\* any other error, or an authentication error and the refresh gives none
ReportFailure ==
  /\ IsIdle
  /\ UNCHANGED sessions
  /\ request.pc = "except"
  /\ handle_credential_failure(request.credential, request.error_str)
  /\ LET disabled == /\ credentials[request.credential].is_active
                      /\ ~credentials'[request.credential].is_active
         logged == [request EXCEPT
                      !.attempts[Len(request.attempts)].disabled = disabled]
     IN request' =
          IF should_retry(request.error_str)
               /\ request.retry_attempt < max_retries
          THEN [logged EXCEPT
                  !.pc = IF request.preheat_task = "none" THEN "select"
                         ELSE "failover",
                  !.waited = 0]
          ELSE [logged EXCEPT !.pc = "done", !.response = "API_ERROR"]

\* The preheat task runs, at any time of the request after its start, on the
\* copy of tried_credential_ids made at its start.
PreheatRuns ==
  /\ IsIdle
  /\ UNCHANGED sessions
  /\ request.pc \in {"upstream", "except", "failover"}
  /\ request.preheat_task = "running"
  /\ \E refreshed \in {NoneStr, "at1"} :
       preheat_next_credential(1, "claude-sonnet-4-5",
                               request.exclude_ids, "antigravity",
                               TRUE, refreshed, NoneStr)
  /\ request' = [request EXCEPT !.preheat_task = "done",
                                !.preheat_result = last'.call.result]

\* the task ends in an exception (its store session cannot be opened)
PreheatFails ==
  /\ IsIdle
  /\ UNCHANGED sessions
  /\ request.pc \in {"upstream", "except", "failover"}
  /\ request.preheat_task = "running"
  /\ request' = [request EXCEPT !.preheat_task = "failed"]
  /\ UNCHANGED <<credentials, users, settings, now, last>>

\* a second passes in wait_for
AwaitPreheat ==
  /\ IsIdle
  /\ UNCHANGED sessions
  /\ request.pc = "failover"
  /\ request.preheat_task = "running"
  /\ request.waited < PreheatTimeout
  /\ request' = [request EXCEPT !.waited = @ + 1]
  /\ UNCHANGED <<credentials, users, settings, now, last>>

\* asyncio.TimeoutError: the task is cancelled
TimeoutPreheat ==
  /\ IsIdle
  /\ UNCHANGED sessions
  /\ request.pc = "failover"
  /\ request.preheat_task = "running"
  /\ request.waited = PreheatTimeout
  /\ request' = SelectManually(request)
  /\ UNCHANGED <<credentials, users, settings, now, last>>

\* the task is done: its credential, if it gave one
TakePreheat ==
  /\ IsIdle
  /\ UNCHANGED sessions
  /\ request.pc = "failover"
  /\ request.preheat_task \in {"done", "failed"}
  /\ request' =
       IF request.preheat_task = "done" /\ request.preheat_result # NULL
       THEN SwitchTo(DropPreheat(request), request.preheat_result)
       ELSE SelectManually(request)
  /\ UNCHANGED <<credentials, users, settings, now, last>>

SelectNext ==
  /\ IsIdle
  /\ UNCHANGED sessions
  /\ request.pc = "select"
  /\ get_available_credential(1, "claude-sonnet-4-5",
                              request.tried_credential_ids, "antigravity")
  /\ request' =
       IF last'.call.result = NULL
       THEN Continue([request EXCEPT !.waited = 0])
       ELSE [request EXCEPT !.pc = "resolve", !.waited = 0,
                            !.new_credential = last'.call.result,
                            !.tried_credential_ids = @ \cup {last'.call.result}]

ResolveNext ==
  /\ IsIdle
  /\ UNCHANGED sessions
  /\ request.pc = "resolve"
  /\ \E refreshed \in {NoneStr, "at1"} :
       get_access_token_and_project(request.new_credential, "antigravity",
                                    TRUE, refreshed, NoneStr)
  /\ request' =
       IF Truthy(last'.call.access_token) /\ Truthy(last'.call.project_id)
       THEN SwitchTo(request, request.new_credential)
       ELSE Continue([request EXCEPT !.new_credential = NULL])

\* the first credentials of the pool are active, the others disabled
ProxyTables ==
  { [i \in Creds |->
       [NewRow(2, "antigravity", "2.5", TRUE, "proj")
          EXCEPT !.is_active = (i <= n)]] : n \in 0..NumCreds }

InitProxy == InitWith(ProxyTables, LifeSettings, BonusQuota)

NextProxy ==
  \/ StartRequest
  \/ ResolveToken
  \/ MarkResolveError
  \/ CallUpstream
  \/ RefreshCurrentToken
  \/ ReportFailure
  \/ PreheatRuns
  \/ PreheatFails
  \/ AwaitPreheat
  \/ TimeoutPreheat
  \/ TakePreheat
  \/ SelectNext
  \/ ResolveNext
  \/ Return

SpecProxy == InitProxy /\ [][NextProxy]_vars

\* The event loop runs what is ready: the timer of wait_for advances and
\* fires, a finished task is taken up, and a call returns.
SpecProxyLive ==
  /\ InitProxy
  /\ [][NextProxy]_vars
  /\ WF_vars(AwaitPreheat)
  /\ WF_vars(TimeoutPreheat)
  /\ WF_vars(TakePreheat)
  /\ WF_vars(Return)

\* Every call of the request gives its outcome and the handler goes on: some
\* step that can be taken is taken.
SpecProxyFair ==
  /\ InitProxy
  /\ [][NextProxy]_vars
  /\ WF_vars(NextProxy)

\* ================================================================ claims
\* What the last call was, and the table it ran from.
Selecting == last.call.op = "get_available_credential"
Selected == Selecting /\ last.call.result # NULL
\* the rows the query of the last selection returned
CandidatesBefore ==
  QueryFilter(last.pre, last.call.user_id, last.call.model,
              last.call.exclude_ids, last.call.mode)
\* whether row i was in cooldown for the request's group when it was made
InCooldownBefore(i) ==
  ~is_credential_available(last.pre[i], ModelGroupOf(last.call.model),
                           AgyModelGroupOf(last.call.model, last.call.mode),
                           last.at)
AvailableBefore == { i \in CandidatesBefore : ~InCooldownBefore(i) }
GroupStampBefore(i) == last_used_of(last.pre[i], ModelGroupOf(last.call.model))
NeedsTier3 == Truthy(last.call.model) /\ get_required_tier(last.call.model) = "3"
TenantIdAbsent(c) == c.project_id = NoneStr \/ c.project_id = ""

C2_ExclusionRespected ==
  Selected => last.call.result \notin last.call.exclude_ids

\* every candidate was in cooldown while an excluded credential, otherwise
\* eligible, was not
C2_Witness ==
  /\ Selected
  /\ \A i \in CandidatesBefore : InCooldownBefore(i)
  /\ \E e \in last.call.exclude_ids :
        /\ e \in QueryFilter(last.pre, last.call.user_id, last.call.model, {},
                             last.call.mode)
        /\ ~InCooldownBefore(e)

\* C3: a selection returns None exactly when the filtered candidate set is
\* empty; a sole candidate in cooldown is returned.
C3_NoneIffNoCandidate ==
  (Selecting /\ ~last.call.raised)
     => (last.call.result = NULL <=> CandidatesBefore = {})

\* the only candidate was in cooldown and was returned
C3_Witness ==
  /\ Selected
  /\ CandidatesBefore = {last.call.result}
  /\ InCooldownBefore(last.call.result)

C5_NoCooldownWhenAvailable ==
  (Selected /\ AvailableBefore # {}) => ~InCooldownBefore(last.call.result)

\* of three candidates the least recently used one was in cooldown, the
\* other two free
C5_Witness ==
  /\ Selected
  /\ Cardinality(CandidatesBefore) >= 3
  /\ \E a \in CandidatesBefore :
        /\ InCooldownBefore(a)
        /\ \A i \in CandidatesBefore \ {a} :
              /\ ~InCooldownBefore(i)
              /\ last.pre[a].last_used_at < last.pre[i].last_used_at

C7_ModeIsolation ==
  /\ Selected => credentials[last.call.result].api_type = last.call.mode
  /\ (Selecting /\ last.call.mode \notin {"geminicli", "antigravity"})
        => (/\ last.call.raised
            /\ last.call.result = NULL
            /\ credentials = last.pre)

\* a credential was returned while one of the other mode, active, with a
\* tenant id and not excluded, was in the pool
C7_Witness ==
  /\ Selected
  /\ \E i \in Creds \ last.call.exclude_ids :
        /\ last.pre[i].api_type # last.call.mode
        /\ last.pre[i].is_active
        /\ ~TenantIdAbsent(last.pre[i])
        /\ PublicOrOwn(last.pre[i], last.call.user_id)

\* C8: a credential without a tenant id (null or empty) is never returned.
C8_TenantIdRequired ==
  Selected => ~TenantIdAbsent(credentials[last.call.result])

\* a credential was returned while one of the same mode with an empty
\* tenant id, and one with a null tenant id, passed every other filter
C8_Witness ==
  /\ Selected
  /\ \E i, j \in Creds \ last.call.exclude_ids :
        /\ last.pre[i].project_id = ""
        /\ last.pre[j].project_id = NoneStr
        /\ \A k \in {i, j} :
              /\ last.pre[k].api_type = last.call.mode
              /\ last.pre[k].is_active
              /\ PublicOrOwn(last.pre[k], last.call.user_id)

\* the operations of the scheduler; toggle_credential is not one
SchedulerOps ==
  {"get_available_credential", "mark_credential_error", "disable_credential",
   "handle_credential_failure", "handle_429_rate_limit",
   "set_model_group_cooldown", "get_access_token_and_project",
   "preheat_next_credential"}

\* C9: no operation of the scheduler (selection, token refresh, tenant
\* provisioning, cooldown setting, 429 handling, failure handling, preheat)
\* makes an inactive credential active.
C9_NoReactivation ==
  last.call.op \in SchedulerOps
     => \A c \in Creds : credentials[c].is_active => last.pre[c].is_active

\* the failure handler ran with an authentication error on a credential
\* that was already inactive
C9_Witness ==
  /\ last.call.op = "handle_credential_failure"
  /\ IsAuthFailure(last.call.error)
  /\ ~last.pre[last.call.credential_id].is_active
  /\ ~credentials[last.call.credential_id].is_active

\* C10: a credential whose committed is_active is false is not returned by
\* a selection, until an external action has made it active again.
C10_InactiveNotReturned ==
  Selected => last.pre[last.call.result].is_active

\* a selection returned a credential while another one, which the failure
\* handler had disabled, passed every other filter
C10_Witness ==
  /\ Selected
  /\ \E c \in Creds \ last.call.exclude_ids :
        /\ ~last.pre[c].is_active
        /\ last.pre[c].failed_requests > 0
        /\ last.pre[c].api_type = last.call.mode
        /\ IsAuthFailure(last.pre[c].last_error)
        /\ ~TenantIdAbsent(last.pre[c])

\* ------------------------------------------------------ failure handling
Failing == last.call.op = "handle_credential_failure"
FailedBefore == last.pre[last.call.credential_id]
FailedAfter == credentials[last.call.credential_id]

\* the markers the specification names for an authentication failure
AuthMarkers == {"401", "403", "invalid_grant", "PERMISSION_DENIED"}
MatchesAuthMarker(error) == \E marker \in AuthMarkers : Contains(marker, error)

\* the first 1000 characters of the text, a lone surrogate in it replaced
StoredText(error) ==
  IF error = LoneSurrogateError THEN LoneSurrogateSafe
  ELSE IF TextLength(error) <= 1000 THEN error
  ELSE LongErrorHead

\* C11: handle_credential_failure with an authentication failure on a
\* credential that is already disabled leaves it disabled and takes nothing
\* from any user's bonus quota, and still stores the error text and adds one
\* to failed_requests.
C11_AuthFailureIdempotent ==
  (Failing /\ MatchesAuthMarker(last.call.error) /\ ~FailedBefore.is_active)
    => /\ ~FailedAfter.is_active
       /\ users = last.pre_users
       /\ FailedAfter.last_error = StoredText(last.call.error)
       /\ FailedAfter.failed_requests = FailedBefore.failed_requests + 1

\* a second authentication failure on a public credential that the first
\* one disabled, whose owner still has bonus quota to lose
C11_Witness ==
  /\ Failing /\ IsAuthFailure(last.call.error)
  /\ ~FailedBefore.is_active /\ FailedBefore.failed_requests > 0
  /\ IsAuthFailure(FailedBefore.last_error)
  /\ FailedBefore.is_public /\ FailedBefore.user_id # NULL
  /\ last.pre_users[FailedBefore.user_id].bonus_quota > 0
  /\ FailedAfter.last_error # FailedBefore.last_error

\* C12 (as stated): every handle_credential_failure, whatever the text and
\* whatever it is taken for, adds exactly one to the credential's
\* failed_requests and sets its last_error to the text, cut to its first
\* 1000 characters.
C12_AlwaysRecorded ==
  Failing
    => /\ FailedAfter.failed_requests = FailedBefore.failed_requests + 1
       /\ FailedAfter.last_error =
            (IF TextLength(last.call.error) <= 1000 THEN last.call.error
             ELSE LongErrorHead)

\* C12 (amended): every handle_credential_failure adds exactly one to the
\* credential's failed_requests and sets its last_error to the first 1000
\* characters of the text in which lone surrogates are replaced; no other
\* credential's counter or text changes.
C12_AlwaysRecordedSanitised ==
  Failing
    => /\ FailedAfter.failed_requests = FailedBefore.failed_requests + 1
       /\ FailedAfter.last_error = StoredText(last.call.error)
       /\ \A i \in Creds \ {last.call.credential_id} :
            /\ credentials[i].failed_requests = last.pre[i].failed_requests
            /\ credentials[i].last_error = last.pre[i].last_error

\* the long text reported after the text with the lone surrogate: its first
\* 1000 characters are stored
C12_Witness ==
  /\ Failing /\ last.call.error = LongError
  /\ FailedBefore.last_error = LoneSurrogateSafe
  /\ FailedAfter.last_error = LongErrorHead
  /\ FailedAfter.failed_requests = 2

\* C13: for every error text with one of the markers 401, 403,
\* invalid_grant or PERMISSION_DENIED, handle_credential_failure on an
\* active credential leaves the credential disabled.
C13_EveryAuthMarkerDisables ==
  (Failing /\ MatchesAuthMarker(last.call.error) /\ FailedBefore.is_active)
    => ~FailedAfter.is_active

\* C14: handle_credential_failure with a text that has no authentication
\* marker (a 5xx, a timeout, a connection reset) leaves is_active and every
\* user's bonus quota as they were; of the credentials table only the
\* credential's last_error and failed_requests change.
C14_TransientDoesNotDisable ==
  (Failing /\ ~MatchesAuthMarker(last.call.error))
    => /\ FailedAfter.is_active = FailedBefore.is_active
       /\ users = last.pre_users
       /\ credentials =
            [last.pre EXCEPT
               ![last.call.credential_id].last_error = FailedAfter.last_error,
               ![last.call.credential_id].failed_requests =
                  FailedAfter.failed_requests]

\* a connection reset reported on an active public credential whose owner
\* has bonus quota
C14_Witness ==
  /\ Failing /\ last.call.error = "Connection reset by peer"
  /\ FailedBefore.is_active /\ FailedAfter.is_active
  /\ FailedBefore.is_public /\ FailedBefore.user_id # NULL
  /\ users[FailedBefore.user_id].bonus_quota > 0
  /\ FailedAfter.last_error = "Connection reset by peer"
  /\ FailedBefore.last_error # "Connection reset by peer"

\* the amount granted for a credential of the tier
TierAmount(model_tier) ==
  IF model_tier = "3"
  THEN settings.quota_flash + settings.quota_25pro + settings.quota_30pro
  ELSE settings.quota_flash + settings.quota_25pro

DisabledByFailure == Failing /\ FailedBefore.is_active /\ ~FailedAfter.is_active

\* C15: when handle_credential_failure disables an active public credential
\* that has an owner, the owner's bonus quota goes down by the amount of the
\* credential's tier, but not below zero, and no other user's changes; when
\* it disables a credential that is not public, no bonus quota changes.
C15_BonusDeductedClamped ==
  DisabledByFailure
    => IF FailedBefore.is_public /\ FailedBefore.user_id # NULL
       THEN LET owner == FailedBefore.user_id
                left == last.pre_users[owner].bonus_quota
                          - TierAmount(FailedBefore.model_tier)
            IN /\ users[owner].bonus_quota = (IF left < 0 THEN 0 ELSE left)
               /\ users[owner].bonus_quota >= 0
               /\ \A u \in Users \ {owner} : users[u] = last.pre_users[u]
       ELSE ~FailedBefore.is_public => users = last.pre_users

\* a public tier-3 credential disabled while its owner has less bonus quota
\* left than the tier's amount
C15_Witness ==
  /\ DisabledByFailure
  /\ FailedBefore.is_public /\ FailedBefore.user_id # NULL
  /\ FailedBefore.model_tier = "3"
  /\ last.pre_users[FailedBefore.user_id].bonus_quota \in
       1..(TierAmount("3") - 1)
  /\ users[FailedBefore.user_id].bonus_quota = 0

\* --------------------------------------------------------- 429 handling
Limiting == last.call.op = "handle_429_rate_limit"
Limited == Limiting /\ ~last.call.raised
LimitedBefore == last.pre[last.call.credential_id]
LimitedAfter == credentials[last.call.credential_id]

\* the call's text and header
Response(error_text, retry_after) ==
  last.call.error_text = error_text /\ last.call.retry_after = retry_after

\* C17: "retryDelay": "60s" gives 60, "quotaResetDelay": "1h2m3s" gives
\* 3723, a Retry-After: 60 header gives 60, "retry after 45 seconds" gives
\* 45, a response with no delay in it gives the fallback of 60, and no
\* response makes the parsing raise.
C17_ParsesOrFallsBack ==
  Limiting
    => /\ ~last.call.raised
       /\ Response(RetryDelayText(60), NoneStr) => last.call.result = 60
       /\ Response(QuotaResetDelayText("1", "2", "3"), NoneStr)
            => last.call.result = 3723
       /\ Response(PlainText, "60") => last.call.result = 60
       /\ Response(RetryAfterText(45), NoneStr) => last.call.result = 45
       /\ Response(PlainText, NoneStr) => last.call.result = 60

\* the five examples alone
C17_Examples ==
  Limited
    => /\ Response(RetryDelayText(60), NoneStr) => last.call.result = 60
       /\ Response(QuotaResetDelayText("1", "2", "3"), NoneStr)
            => last.call.result = 3723
       /\ Response(PlainText, "60") => last.call.result = 60
       /\ Response(RetryAfterText(45), NoneStr) => last.call.result = 45
       /\ Response(PlainText, NoneStr) => last.call.result = 60

\* the group of the 429's model, and its configured cooldown
LimitGroup == get_model_group(last.call.model)
LimitConfigCd == get_cd_seconds(LimitGroup)
\* whether a reading at time t finds the limited credential in cooldown
LimitedInCdAt(t) == is_credential_in_cd(LimitedAfter, LimitGroup, t)

QuotaParsed == last.call.op = "parse_429_quota_error"

\* C18: a 429 body with a model and a quotaResetTimeStamp T gives the
\* model's group and exactly the absolute time T as the entry to store.
C18_ResetTimeExact ==
  (/\ QuotaParsed
   /\ last.call.error_text.model # NoneStr
   /\ last.call.error_text.quotaResetTimeStamp # NULL)
    => /\ last.call.model_group =
            get_antigravity_model_group(last.call.error_text.model)
       /\ last.call.result =
            last.call.error_text.quotaResetTimeStamp
              - last.call.error_text.utc_offset

\* the same for timestamps written in UTC
C18_ResetTimeExactUtc ==
  (/\ QuotaParsed
   /\ last.call.error_text.model # NoneStr
   /\ last.call.error_text.quotaResetTimeStamp # NULL
   /\ last.call.error_text.utc_offset = 0)
    => /\ last.call.model_group =
            get_antigravity_model_group(last.call.error_text.model)
       /\ last.call.result = last.call.error_text.quotaResetTimeStamp

\* The two sources of cooldown for the request of the last selection, as
\* row i stood when the request was made.
FixedCooldownBefore(i) ==
  LET cd == get_cd_seconds(ModelGroupOf(last.call.model))
  IN cd > 0 /\ GroupStampBefore(i) # NULL /\ last.at < GroupStampBefore(i) + cd

UpstreamEntryBefore(i) ==
  last.pre[i].model_cooldowns[get_antigravity_model_group(last.call.model)]

UpstreamCooldownBefore(i) ==
  /\ Truthy(last.call.model)
  /\ UpstreamEntryBefore(i) # NULL
  /\ last.at < UpstreamEntryBefore(i)

EitherCooldownBefore(i) == FixedCooldownBefore(i) \/ UpstreamCooldownBefore(i)

\* C19 (as stated): in every mode, when some candidate is in cooldown by
\* neither source, the selection returns no credential that is in cooldown
\* by either, the fixed one or an unexpired entry of the cooldown map.
C19_EitherSourceEveryMode ==
  (Selected /\ \E i \in CandidatesBefore : ~EitherCooldownBefore(i))
    => ~EitherCooldownBefore(last.call.result)

\* C19 (amended): the same in mode "antigravity".
C19_EitherSourceAntigravity ==
  (/\ Selected /\ last.call.mode = "antigravity"
   /\ \E i \in CandidatesBefore : ~EitherCooldownBefore(i))
    => ~EitherCooldownBefore(last.call.result)

\* with the fixed cooldown off, a candidate no later in the order than the
\* one returned was passed over for its unexpired entry
C19_Witness ==
  /\ Selected /\ last.call.mode = "antigravity"
  /\ get_cd_seconds(ModelGroupOf(last.call.model)) = 0
  /\ \E a \in CandidatesBefore \ {last.call.result} :
        /\ UpstreamCooldownBefore(a)
        /\ last.pre[a].last_used_at <= last.pre[last.call.result].last_used_at
  /\ ~UpstreamCooldownBefore(last.call.result)

Cooling == last.call.op = "set_model_group_cooldown"

\* C20: set_model_group_cooldown(c, g, t) sets entry g of c to t and leaves
\* every other entry, of c and of every other credential, as it was; no
\* operation leaves an entry absent that was present before it; a selection
\* leaves the map as it was, and in mode antigravity counts a candidate
\* whose only cooldown is an expired entry as available.
C20_CooldownMapOverwriteOnly ==
  /\ Cooling
       => credentials =
            [last.pre EXCEPT
               ![last.call.credential_id].model_cooldowns[last.call.model] =
                  last.call.result]
  /\ \A i \in Creds, g \in AgyGroups :
        last.pre[i].model_cooldowns[g] # NULL
          => credentials[i].model_cooldowns[g] # NULL
  /\ Selecting
       => \A i \in Creds :
             credentials[i].model_cooldowns = last.pre[i].model_cooldowns
  /\ (/\ Selected /\ last.call.mode = "antigravity" /\ Truthy(last.call.model)
      /\ \E i \in CandidatesBefore :
            /\ UpstreamEntryBefore(i) # NULL
            /\ UpstreamEntryBefore(i) <= last.at
            /\ ~FixedCooldownBefore(i))
       => ~EitherCooldownBefore(last.call.result)

\* an entry overwritten with another time while the credential has an entry
\* for another group
C20_Witness ==
  /\ Cooling
  /\ LET before == last.pre[last.call.credential_id].model_cooldowns
     IN /\ before[last.call.model] # NULL
        /\ before[last.call.model] # last.call.result
        /\ \E g \in AgyGroups \ {last.call.model} :
              /\ before[g] # NULL
              /\ credentials[last.call.credential_id].model_cooldowns[g]
                   = before[g]

\* C21: handle_429_rate_limit(c, model, ...) for a model of group g leaves
\* is_active of c as it was, leaves last_used_at and the last-used stamps of
\* the groups other than g as they were, leaves every entry of the cooldown
\* map of c as it was, and leaves every other credential and every user as
\* they were.
C21_OnlyGroupCooldown ==
  Limited
    => /\ LimitedAfter.is_active = LimitedBefore.is_active
       /\ LimitedAfter.last_used_at = LimitedBefore.last_used_at
       /\ \A g \in Groups \ {LimitGroup} :
             last_used_of(LimitedAfter, g) = last_used_of(LimitedBefore, g)
       /\ LimitedAfter.model_cooldowns = LimitedBefore.model_cooldowns
       /\ \A i \in Creds \ {last.call.credential_id} :
             credentials[i] = last.pre[i]
       /\ users = last.pre_users

\* a 429 for one group on an active credential that carries the stamp of
\* another group and an entry of the cooldown map, and whose own stamp moves
C21_Witness ==
  /\ Limited
  /\ LimitedBefore.is_active
  /\ \E g \in Groups \ {LimitGroup} :
        /\ last_used_of(LimitedBefore, g) # NULL
        /\ last_used_of(LimitedBefore, g) # last_used_of(LimitedAfter, LimitGroup)
  /\ \E g \in AgyGroups : LimitedBefore.model_cooldowns[g] # NULL
  /\ last_used_of(LimitedAfter, LimitGroup)
       # last_used_of(LimitedBefore, LimitGroup)

\* ------------------------------------------------------------ pool policy
\* the policy the selection applies in the mode of the last call
PoolPolicy ==
  IF last.call.mode = "antigravity" THEN settings.antigravity_pool_mode
  ELSE settings.credential_pool_mode

\* the credential the last selection returned is not the requester's
ServedFromOthers ==
  Selected /\ last.pre[last.call.result].user_id # last.call.user_id

\* C26: under the full_shared policy a selection returns a credential of
\* another user only to a requester who has an active public credential of
\* the mode (check_user_has_public_creds); any other requester is served
\* from their own credentials only.
C26_SharedOnlyForContributors ==
  (ServedFromOthers /\ PoolPolicy = "full_shared")
    => check_user_has_public_creds(last.pre, last.call.user_id, last.call.mode)

\* C27: under the tier3_shared policy a selection for a model that requires
\* tier 3 returns a credential of another user only if that credential is
\* public and the requester owns an active tier-3 credential of the mode
\* (check_user_has_tier3_creds); a requester who owns none is served from
\* their own credentials only.
C27_Tier3PoolForTier3Owners ==
  (/\ ServedFromOthers
   /\ PoolPolicy = "tier3_shared"
   /\ RequiredTierOf(last.call.model) = "3")
    => /\ check_user_has_tier3_creds(last.pre, last.call.user_id, last.call.mode)
       /\ last.pre[last.call.result].is_public

\* a tier-3 owner served from the public pool, and a requester without a
\* tier-3 credential served from their own while another user's public
\* tier-3 credential is in the pool
C27_Witness ==
  /\ Selected
  /\ PoolPolicy = "tier3_shared"
  /\ RequiredTierOf(last.call.model) = "3"
  /\ \/ ServedFromOthers
     \/ /\ ~check_user_has_tier3_creds(last.pre, last.call.user_id,
                                        last.call.mode)
        /\ \E i \in Creds :
              /\ last.pre[i].user_id # last.call.user_id
              /\ last.pre[i].is_public /\ last.pre[i].is_active
              /\ last.pre[i].model_tier = "3"
              /\ last.pre[i].api_type = last.call.mode
              /\ Truthy(last.pre[i].project_id)

\* ------------------------------------------------------ token and tenant
TokenCalled ==
  last.call.op = "get_access_token_and_project" /\ ~last.call.raised
TokenBefore == last.pre[last.call.credential_id]
TokenAfter == credentials[last.call.credential_id]

\* the stored token was missing or expired and the OAuth endpoint gave none
RefreshFailed ==
  /\ TokenCalled
  /\ last.call.expired \/ ~Truthy(TokenBefore.api_key)
  /\ ~Truthy(last.call.refreshed)

\* C28: when the refresh of a credential's token fails, the call returns the
\* stored token if there is one and None only if there is none, and the
\* stored token is left as it was.
C28_FailedRefreshKeepsToken ==
  RefreshFailed
    => /\ TokenAfter.api_key = TokenBefore.api_key
       /\ Truthy(TokenBefore.api_key)
            => last.call.access_token = TokenBefore.api_key
       /\ ~Truthy(TokenBefore.api_key) => last.call.access_token = NoneStr

\* a failed refresh of an expired token that an earlier refresh had stored
C28_Witness ==
  /\ RefreshFailed
  /\ last.call.expired
  /\ Truthy(TokenBefore.api_key)
  /\ last.call.access_token = TokenBefore.api_key
  /\ TokenAfter.api_key = TokenBefore.api_key

\* ---------------------------------------------------------- the handshake
Fetching == last.call.op = "fetch_project_id"

\* the answers with which the fallback step gives a tenant id
OnboardGives ==
  LET polls == last.call.responses.polls
  IN /\ last.call.responses.tier \in {"default_tier", "no_default"}
     /\ \E n \in 1..max_attempts :
           /\ n <= Len(polls)
           /\ polls[n] \in {"done_dict", "done_str"}
           /\ \A k \in 1..(n - 1) : polls[k] = "pending"

\* C29: fetch_project_id raises for no answers of the endpoints: it returns
\* a tenant id or None; it returns the tenant id of the first step when that
\* step gives one, and whenever the first step gives none or fails, the
\* result is what the fallback step gives.
C29_FetchNeverRaises ==
  Fetching
    => /\ ~last.call.raised
       /\ last.call.project_id \in {NoneStr, "proj"}
       /\ last.call.responses.load = "project"
            => last.call.project_id = "proj"
       /\ last.call.responses.load # "project"
            => (last.call.project_id = "proj" <=> OnboardGives)

\* the first step fails with a connection error and the fallback gives the
\* tenant id after a pending answer; and both steps fail
C29_Witness ==
  /\ Fetching
  /\ \/ /\ last.call.responses.load = "transport"
        /\ last.call.responses.polls = <<"pending", "done_dict">>
        /\ last.call.project_id = "proj"
     \/ /\ last.call.responses.load = "malformed"
        /\ last.call.responses.tier = "default_tier"
        /\ last.call.responses.polls = <<"pending", "non200">>
        /\ last.call.project_id = NoneStr

\* ------------------------------------------------------- the retry loop
\* the exception the loop is handling, or has just handled, is a 429
RateLimited == Contains("429", request.error_str)

\* C22: when an upstream call fails with a 429, the loop calls
\* handle_429_rate_limit on the failing credential before it selects the
\* next one, so that by the time of the selection the 429 is recorded on the
\* credential, and it does not call handle_credential_failure with the 429.
C22_RateLimitRoutedToCooldown ==
  /\ (RateLimited /\ request.pc \in {"failover", "select", "resolve"})
       => credentials[request.credential].last_error = "429"
  /\ last.call.op = "handle_credential_failure"
       => ~Contains("429", last.call.error)

\* C23: an upstream call that follows, in the same request, a call that
\* failed with an authentication error (401, 403, PERMISSION_DENIED) whose
\* handling disabled the credential, runs on another credential.
C23_DisabledNotRetried ==
  \A k \in 1..(Len(request.attempts) - 1) :
     (IsAuthFailure(request.attempts[k].error) /\ request.attempts[k].disabled)
       => request.attempts[k + 1].credential # request.attempts[k].credential

\* the request is answered with an error
AnsweredWithError == request.response \notin {"none", "200"}

\* C24: a request is answered with an error only if the selection found no
\* credential for it or if max_retries + 1 upstream calls were made; in
\* particular a credential that gives no token, and one failed upstream
\* call, do not end the request.
C24_ErrorOnlyWhenExhausted ==
  AnsweredWithError
    => \/ request.response = "NO_CREDENTIAL"
       \/ Len(request.attempts) = max_retries + 1

\* ------------------------------------------------- provisioning failure
\* the call got a token and no tenant id
ProvisioningFailed ==
  /\ TokenCalled
  /\ Truthy(last.call.access_token)
  /\ ~Truthy(last.call.project_id)

\* C25 as stated: a credential for which the tenant id cannot be obtained
\* is disabled.
C25_ProvisioningFailureDisables ==
  ProvisioningFailed => ~TokenAfter.is_active

\* C25: a credential for which the tenant id cannot be obtained keeps its
\* is_active and stays without tenant id; recording the error on it
\* (mark_credential_error) leaves is_active as it was too; and neither a
\* selection nor a preheat hands out a credential that has no tenant id.
C25_ProvisioningFailureExcludes ==
  /\ ProvisioningFailed
       => /\ TokenAfter.is_active = TokenBefore.is_active
          /\ ~Truthy(TokenAfter.project_id)
  /\ last.call.op = "mark_credential_error"
       => credentials[last.call.credential_id].is_active
            = last.pre[last.call.credential_id].is_active
  /\ Selected => Truthy(last.pre[last.call.result].project_id)
  /\ (last.call.op = "preheat_next_credential" /\ last.call.result # NULL)
       => Truthy(last.pre[last.call.result].project_id)

\* the tenant id of an active credential cannot be obtained
C25_Witness ==
  /\ ProvisioningFailed
  /\ TokenBefore.is_active
  /\ TokenAfter.is_active

\* -------------------------------------------------- the wait on the preheat
\* the loop leaves the wait without a credential of the preheat task
LeavesWaitEmptyHanded ==
  /\ request.pc = "failover"
  /\ request'.pc # "failover"
  /\ ~(request.preheat_task = "done" /\ request.preheat_result # NULL)

\* C30: the loop awaits a running preheat task for at most PreheatTimeout
\* seconds and always leaves the wait; when it leaves it because the time is
\* up, because the task failed or because the task gave no credential, its
\* next step is the synchronous selection of the same iteration, the task
\* dropped.
C30_PreheatWaitBounded ==
  /\ [](request.waited <= PreheatTimeout)
  /\ [][LeavesWaitEmptyHanded
          => /\ request'.pc = "select"
             /\ request'.retry_attempt = request.retry_attempt
             /\ request'.credential = request.credential
             /\ request'.preheat_task = "none"]_vars
  /\ (request.pc = "failover") ~> (request.pc # "failover")

\* the time is up on a task that is still running, and the loop is at the
\* synchronous selection
C30_Witness ==
  /\ request.pc = "select"
  /\ request.waited = PreheatTimeout
  /\ request.preheat_task = "none"

\* ------------------------------------------------- the preheat pipeline
\* C31: at every point of a request at most one preheat task that the
\* request created is under way (started, and neither consumed nor timed
\* out), and it is the task the handle holds: a new task is created only
\* once the handle of the previous one has been consumed or cleared.
C31_OnePreheatOutstanding ==
  /\ request.outstanding <= 1
  /\ request.outstanding = 1 <=> request.preheat_task # "none"

\* the second task of a request, started after a failover
C31_Witness ==
  /\ request.retry_attempt = 1
  /\ request.credential # request.attempts[1].credential
  /\ request.preheat_task = "running"
  /\ request.outstanding = 1

\* the step in which the loop switches to a new credential
Failover ==
  /\ request.credential # NULL
  /\ request'.credential # request.credential

\* the attempt under way is the first one on its credential after a failover
AfterFailover ==
  /\ Len(request.attempts) >= 2
  /\ request.attempts[Len(request.attempts)].credential
       # request.attempts[Len(request.attempts) - 1].credential

\* C32 as stated: every successful failover starts a new preheat task before
\* the next upstream attempt.
C32_PreheatAfterEveryFailover ==
  [][Failover => /\ request'.pc = "upstream"
                 /\ request'.preheat_task = "running"]_vars

\* C32, amended: a successful failover is followed by the next upstream
\* attempt and starts a new preheat task before it exactly when that attempt
\* is not the last one of the loop (retry_attempt + 1 < max_retries at the
\* switch); a failure of such an attempt that is retried finds a task to
\* consume and does not start with the synchronous selection.
C32_PreheatAfterFailoverWithRetriesLeft ==
  /\ [][Failover =>
          /\ request'.pc = "upstream"
          /\ request'.preheat_task = "running"
               <=> request'.retry_attempt < max_retries]_vars
  /\ [][AfterFailover /\ request.pc = "except"
          /\ request'.pc \in {"failover", "select"}
          => /\ request'.pc = "failover"
             /\ request'.preheat_task # "none"]_vars

\* the attempt after a failover has failed, and a task is there to consume
C32_Witness ==
  /\ AfterFailover
  /\ request.pc = "failover"
  /\ request.retry_attempt = 1
  /\ request.preheat_task \in {"running", "done"}

\* ------------------------------------------------------- the retry loop
\* the place of the handler within one iteration, later places lower
Stage(pc) ==
  CASE pc = "none" -> 8
    [] pc = "token" -> 7
    [] pc = "upstream" -> 6
    [] pc = "except" -> 5
    [] pc = "failover" -> 4
    [] pc = "select" -> 3
    [] pc = "resolve" -> 2
    [] pc \in {"token_error", "project_error"} -> 1
    [] OTHER -> 0

\* what is left of a request: the iterations of the loop, then the places of
\* the iteration, then the run of the preheat task and the time of the wait
Left(r) ==
  IF r.pc = "done" THEN 0
  ELSE (((max_retries + 1 - r.retry_attempt) * 9 + Stage(r.pc)) * 2
          + (IF r.preheat_task = "running" THEN 1 ELSE 0))
         * (PreheatTimeout + 1)
       + (PreheatTimeout - r.waited)

Answers ==
  {"200", "NO_CREDENTIAL", "TOKEN_ERROR", "CONFIG_ERROR", "API_ERROR",
   "ALL_FAILED"}

\* the selection that would read a time beyond the bound of the clock
ClockRunsOut == request.pc = "select" /\ now = MaxTime

NewlyTaken ==
  IF request.pc = "select" THEN request'.new_credential
  ELSE IF request.pc = "failover" /\ request'.pc = "upstream"
  THEN request'.credential
  ELSE NULL

\* C34: a credential the retry loop switches to, whether it comes from a
\* finished or an awaited preheat task or from the synchronous selection,
\* was not in tried_credential_ids when the loop took it up and is in the
\* set from then on; the set only grows during a request.
C34_SwitchToUntried ==
  /\ [][request.tried_credential_ids \subseteq request'.tried_credential_ids]_vars
  /\ [][NewlyTaken # NULL
          => /\ NewlyTaken \notin request.tried_credential_ids
             /\ NewlyTaken \in request'.tried_credential_ids]_vars
  /\ [][Failover
          => /\ request'.credential \in request'.tried_credential_ids
             /\ request.pc = "resolve"
                  => request'.credential = request.new_credential]_vars

\* the loop has switched twice: three credentials tried, the third in use
C34_Witness ==
  /\ request.retry_attempt = 2
  /\ Cardinality(request.tried_credential_ids) = 3
  /\ request.credential \notin {request.attempts[1].credential,
                                request.attempts[2].credential}
  /\ request.attempts[1].credential # request.attempts[2].credential

\* ------------------------------------------- the write of the selection
\* a credential with the stamp of one group set to t
WithGroupStamp(c, group, t) ==
  CASE group = "flash" -> [c EXCEPT !.last_used_flash = t]
    [] group = "pro" -> [c EXCEPT !.last_used_pro = t]
    [] group = "30" -> [c EXCEPT !.last_used_30 = t]

\* C35: a get_available_credential call that returns a credential has
\* written, on that credential, the usage counter raised by exactly one and
\* the time of the call as the last-used stamp of the group of the request's
\* model (and as last_used_at); the stamps of the other two groups, every
\* other field of it and every other credential are as before the call.
C35_SelectionWritesOneGroup ==
  Selected =>
    LET chosen == last.call.result
        before == last.pre[chosen]
        group == IF last.call.model = NoneStr THEN "flash"
                 ELSE get_model_group(last.call.model)
    IN /\ credentials[chosen] =
            WithGroupStamp([before EXCEPT
                              !.total_requests = @ + 1,
                              !.last_used_at = last.at],
                           group, last.at)
       /\ \A i \in Creds \ {chosen} : credentials[i] = last.pre[i]

\* a selection for a model of the 3.0 group among several candidates
C35_Witness ==
  /\ Selected
  /\ last.call.model = "gemini-3-pro-preview"
  /\ Cardinality(CandidatesBefore) >= 2
  /\ credentials[last.call.result].last_used_30 = last.at
  /\ credentials[last.call.result].last_used_pro = NULL

\* ------------------------------------------- the order of the sources
Parsing == last.call.op = "parse_429_retry_after"

\* whole seconds of a quotaResetDelay whose numbers float() accepts
DelaySeconds(d) ==
  LET Part(i) == IF d[i] = NoneStr THEN 0 ELSE FloatOf(d[i])
  IN (Part(1) * 3600 + Part(2) * 60 + Part(3)) \div 1000

\* The six sources of a response in the order of the parsing, each with
\* whether it parses and the seconds it then gives.  A reset timestamp and a
\* compound delay are taken to parse when they give a positive time.
Sources(error_text, retry_after, time) ==
  LET t == error_text.quotaResetTimeStamp
      d == error_text.quotaResetDelay
  IN << [parses |-> t # NULL /\ t - time > 0, value |-> t - time],
        [parses |-> retry_after # NoneStr /\ ~IntRaises(retry_after),
         value |-> IntOf(retry_after)],
        [parses |-> error_text.retryDelay # NoMatch,
         value |-> error_text.retryDelay],
        [parses |-> /\ d # <<>>
                    /\ \A i \in 1..3 : d[i] = NoneStr \/ ~FloatRaises(d[i])
                    /\ DelaySeconds(d) > 0,
         value |-> IF d = <<>> THEN 0 ELSE DelaySeconds(d)],
        [parses |-> error_text.retry_after # NoMatch,
         value |-> error_text.retry_after],
        [parses |-> error_text.seconds # NoMatch,
         value |-> error_text.seconds] >>

\* the value of the first source that parses, 0 when none does
FirstParsing(S) ==
  IF \A i \in 1..Len(S) : ~S[i].parses THEN 0
  ELSE S[CHOOSE i \in 1..Len(S) :
           S[i].parses /\ \A j \in 1..(i - 1) : ~S[j].parses].value

\* C36: parse_429_retry_after returns the value of the first source that
\* parses, in the order reset timestamp, Retry-After header, retryDelay,
\* compound delay, "retry after N seconds", "N seconds"; a later source is
\* used only when every earlier one is absent or fails to parse.
C36_FirstParsingSourceWins ==
  Parsing =>
    /\ ~last.call.raised
    /\ last.call.result =
         FirstParsing(Sources(last.call.error_text, last.call.retry_after,
                              last.at))

\* ----------------------------------------------------- the onboarding step
\* the last call is an onboarding whose tier lookup gave a tier
Onboarding ==
  /\ last.call.op = "_try_onboard_user"
  /\ last.call.responses.tier \in {"default_tier", "no_default"}

\* the k-th poll is the first one that is not pending
FirstAnswerAt(k) ==
  /\ k <= Len(last.call.responses.polls)
  /\ last.call.responses.polls[k] # "pending"
  /\ \A j \in 1..(k - 1) : last.call.responses.polls[j] = "pending"

\* C37: the onboarding step ends after at most 5 polls.  It returns the id
\* of the finished operation with the first poll that reports done with an
\* id, and None with the first poll that reports done without an id and
\* after 5 polls of which none reports done.
C37_OnboardingTerminates ==
  /\ last.call.op = "_try_onboard_user" => last.call.result <= max_attempts
  /\ Onboarding =>
       /\ \A k \in 1..max_attempts :
            /\ FirstAnswerAt(k)
                 /\ last.call.responses.polls[k] \in {"done_dict", "done_str"}
                 => /\ ~last.call.raised
                    /\ last.call.project_id = "proj"
                    /\ last.call.result = k
            /\ FirstAnswerAt(k) /\ last.call.responses.polls[k] = "done_none"
                 => /\ ~last.call.raised
                    /\ last.call.project_id = NoneStr
                    /\ last.call.result = k
       /\ (/\ Len(last.call.responses.polls) >= max_attempts
           /\ \A j \in 1..max_attempts :
                last.call.responses.polls[j] = "pending")
            => /\ ~last.call.raised
               /\ last.call.project_id = NoneStr
               /\ last.call.result = max_attempts

\* five pending polls and a sixth answer that is never asked for
C37_Witness ==
  /\ Onboarding
  /\ last.call.responses.polls = Pending(max_attempts) \o <<"done_dict">>
  /\ last.call.result = max_attempts
  /\ last.call.project_id = NoneStr

\* ------------------------------------------------- what a requester sees
\* the row the last selection returned, as it was before the call
ServedRow == last.pre[last.call.result]

\* a public credential of another user that the query would pass but for
\* the pool policy
PublicOfOthersOffered ==
  \E i \in Creds :
     /\ last.pre[i].is_public
     /\ last.pre[i].user_id # last.call.user_id
     /\ last.pre[i].is_active
     /\ last.pre[i].api_type = last.call.mode
     /\ last.pre[i].project_id \notin {NoneStr, ""}

\* C38: under every pool policy and in every mode a selection returns only
\* a credential that the requester owns or that is public; under the
\* private policy it returns only a credential of the requester, also when
\* public credentials of other users are there.
C38_OwnOrPublicOnly ==
  Selected =>
    /\ ServedRow.user_id = last.call.user_id \/ ServedRow.is_public
    /\ PoolPolicy = "private" => ServedRow.user_id = last.call.user_id

\* a selection under the private policy that passes over a public
\* credential of another user
C38_Witness ==
  /\ Selected
  /\ PoolPolicy = "private"
  /\ PublicOfOthersOffered
  /\ ServedRow.user_id = last.call.user_id

\* --------------------------------------------- failures handled side by side
\* what the disablings so far take off the bonus of user 2, one deduction
\* for each public credential that has been disabled
RECURSIVE DeductionsDue(_)
DeductionsDue(n) ==
  IF n = 0 THEN 0
  ELSE DeductionsDue(n - 1)
         + (IF ~credentials[n].is_active /\ credentials[n].is_public
            THEN BonusDeduct(credentials[n]) ELSE 0)

\* C39: when handle_credential_failure calls with authentication errors run
\* side by side for the same active public credential, the owner's bonus is
\* deducted at most once for the one disabling of the credential, under
\* every interleaving of their reads and commits.
C39_DeductedOncePerDisabling ==
  users[2].bonus_quota >= Max(0, BonusQuota - DeductionsDue(NumCreds))

\* C40: round robin under sequential use.  One caller repeats a selection
\* with the same arguments and no exclusion set on a pool with N eligible
\* credentials, none in cooldown at the start, and nothing else writes the
\* store.  Every call reads a later clock and stamps the credential it
\* returns, so the stamps written since the start tell the calls apart:
\* after k calls the eligible credentials carry the stamps of the last
\* min(k, N) calls, one each.  Any N consecutive calls therefore return N
\* distinct credentials, and none is returned again before all the others.
Eligible ==
  QueryFilter(credentials, last.call.user_id, last.call.model, {},
              last.call.mode)

StampsSinceStart ==
  { t \in { credentials[i].last_used_at : i \in Eligible } : t > 1 }

C40_RoundRobin ==
  (last.call.op = "get_available_credential" /\ last.call.result # NULL) =>
    LET N == Cardinality(Eligible)
        k == now - 1
    IN StampsSinceStart = (now - (IF k < N THEN k ELSE N) + 1)..now

\* a full round and one more call on a pool where every credential is eligible
C40_Witness ==
  /\ last.call.op = "get_available_credential"
  /\ last.call.result # NULL
  /\ Cardinality(Eligible) = NumCreds
  /\ now = NumCreds + 2
  /\ credentials[last.call.result].total_requests >= 2

====
